---- MODULE Spec2Model ----
(***************************************************************************)
(* JACK-over-PulseAudio bridge (src/jopa.cpp).                             *)
(*                                                                         *)
(* Two threads of control are modelled.  The JACK side runs the callbacks  *)
(* jack_on_process, jack_on_buffer_size, jack_on_sample_rate and           *)
(* jack_on_port_connect; JACK never runs two of them at once, so each is   *)
(* one position of the variable jpc.  The PulseAudio threaded mainloop     *)
(* runs the pulse_on_* callbacks one at a time (variable ppc).  The two    *)
(* threads share the three jack ringbuffers, jack_buffer_size and          *)
(* sample_rate; the only synchronisation is the mainloop lock.             *)
(*                                                                         *)
(* Bytes are modelled one by one.  A sample is a tuple of sizeof_sample    *)
(* bytes.  Bytes produced by the graph ports and by the PulseAudio server  *)
(* are numbered tokens, all different, so that any loss, duplication or    *)
(* reordering shows; 0 is the byte memset writes.                          *)
(***************************************************************************)
EXTENDS Integers, Sequences, FiniteSets, TLC

\* ------------------------------------------------------------------------
\* Program constants

sizeof_sample == 4

num_channels == 2

ringbuffer_fragments == 2

frame_size == num_channels * sizeof_sample

\* ------------------------------------------------------------------------
\* Bounds of the model

\* Block sizes the JACK server may announce (frames); JACK requires powers
\* of two.
PeriodSizes == {1, 2}

\* Sample rates the JACK server may announce.
SampleRates == {44100, 48000}

\* The rate of the JACK server when the program starts.
InitialSampleRate == 48000

\* Number of graph periods (jack_on_process) in a run.
MaxPeriods == 3

\* Number of write-ready callbacks in a run.
MaxWrites == 4

\* Number of packets the server sends on the record and monitor streams in a run.
MaxPackets == 2

\* Number of block-size and sample-rate notifications in a run.
MaxChanges == 1

\* Number of port-topology notifications in a run.
MaxEvents == 2

\* Number of stream-moved callbacks in a run.
MaxMoves == 1

\* Byte counts the streaming side asks for or delivers.  4 is half a frame.
PulseSizes == {4, 8, 16}

\* Byte counts of the write-ready callbacks that run beside a block-size change.
ReconfSizes == {16}

Rings == {"playback", "capture", "monitor"}

Streams == {"playback", "record", "monitor"}

Channels == 0 .. num_channels - 1

Min(a, b) == IF a < b THEN a ELSE b

\* ------------------------------------------------------------------------
\* jack/ringbuffer.h as used by the program.  A ring is
\* [size, buf, read_ptr, write_ptr]; buf is indexed from 0.

RECURSIVE PowerOfTwoFrom(_, _)
PowerOfTwoFrom(p, sz) == IF 2 ^ p < sz THEN PowerOfTwoFrom(p + 1, sz) ELSE 2 ^ p

\* jack_ringbuffer_create: the size is rounded up to a power of two, the
\* memory is not initialised (nothing reads it before it is written).
jack_ringbuffer_create(sz) ==
    LET size == PowerOfTwoFrom(1, sz)
    IN  [size |-> size, buf |-> [i \in 0 .. size - 1 |-> 0],
         read_ptr |-> 0, write_ptr |-> 0]

jack_ringbuffer_read_space(rb) ==
    IF rb.write_ptr > rb.read_ptr
    THEN rb.write_ptr - rb.read_ptr
    ELSE (rb.write_ptr - rb.read_ptr + rb.size) % rb.size

\* One byte is always kept free: a ring of size S holds at most S - 1 bytes.
jack_ringbuffer_write_space(rb) ==
    IF rb.write_ptr > rb.read_ptr
    THEN ((rb.read_ptr - rb.write_ptr + rb.size) % rb.size) - 1
    ELSE IF rb.write_ptr < rb.read_ptr
         THEN rb.read_ptr - rb.write_ptr - 1
         ELSE rb.size - 1

\* The two contiguous pieces, <<[start, len], [start, len]>>, that hold the
\* next cnt bytes from position ptr.
RingVector(rb, ptr, cnt) ==
    IF ptr + cnt > rb.size
    THEN << [start |-> ptr, len |-> rb.size - ptr],
            [start |-> 0, len |-> (ptr + cnt) % rb.size] >>
    ELSE << [start |-> ptr, len |-> cnt], [start |-> 0, len |-> 0] >>

jack_ringbuffer_get_write_vector(rb) ==
    RingVector(rb, rb.write_ptr, jack_ringbuffer_write_space(rb))

jack_ringbuffer_get_read_vector(rb) ==
    RingVector(rb, rb.read_ptr, jack_ringbuffer_read_space(rb))

jack_ringbuffer_write_advance(rb, cnt) ==
    [rb EXCEPT !.write_ptr = (rb.write_ptr + cnt) % rb.size]

jack_ringbuffer_read_advance(rb, cnt) ==
    [rb EXCEPT !.read_ptr = (rb.read_ptr + cnt) % rb.size]

\* memcpy out of / into the ring's memory
CopyOut(rb, start, len) == [k \in 1 .. len |-> rb.buf[start + k - 1]]

CopyIn(rb, start, src) ==
    [rb EXCEPT !.buf = [p \in 0 .. rb.size - 1 |->
        IF p >= start /\ p < start + Len(src) THEN src[p - start + 1] ELSE rb.buf[p]]]

\* jack_ringbuffer_read: <<bytes copied to dest, ring afterwards>>; copies
\* min(cnt, read space) bytes, in two pieces when they straddle the end.
jack_ringbuffer_read(rb, cnt) ==
    LET to_read == Min(cnt, jack_ringbuffer_read_space(rb))
        vec     == RingVector(rb, rb.read_ptr, to_read)
        n1      == vec[1].len
        n2      == vec[2].len
        rb1     == jack_ringbuffer_read_advance(rb, n1)
    IN  << CopyOut(rb, rb.read_ptr, n1) \o CopyOut(rb1, rb1.read_ptr, n2),
           jack_ringbuffer_read_advance(rb1, n2) >>

\* jack_ringbuffer_write: the ring after writing min(Len(src), write space)
\* bytes of src, in two pieces when they straddle the end.
jack_ringbuffer_write(rb, src) ==
    LET to_write == Min(Len(src), jack_ringbuffer_write_space(rb))
        vec      == RingVector(rb, rb.write_ptr, to_write)
        n1       == vec[1].len
        n2       == vec[2].len
        rb1      == jack_ringbuffer_write_advance(
                        CopyIn(rb, rb.write_ptr, SubSeq(src, 1, n1)), n1)
    IN  jack_ringbuffer_write_advance(
            CopyIn(rb1, rb1.write_ptr, SubSeq(src, n1 + 1, n1 + n2)), n2)

\* The size init() and jack_on_buffer_size ask for.
RingBytes(nframes) ==
    nframes * (num_channels * sizeof_sample * ringbuffer_fragments)

\* ------------------------------------------------------------------------
\* State

VARIABLES
    status,                  \* "running", "aborted" (uncaught exception), "exited"
    sample_rate,             \* JopaSession::sample_rate
    jack_buffer_size,        \* JopaSession::jack_buffer_size
    rb,                      \* the three jack ringbuffers, by name
    jack_connect_operations, \* the queue of JackConnectOperation
    jpc,                     \* position of the JACK thread
    npc,                     \* JACK's notification thread inside jack_on_port_connect
    jarg,                    \* nframes of the running notification handler
    lock,                    \* holder of the mainloop lock: "free" or "jack"
    ppc,                     \* position of the PulseAudio mainloop thread
    pulse_context_state,     \* "connecting", "ready", "failed", "terminated"
    stream_state,            \* per stream: "null", "unconnected", "creating", "ready"
    stream_attr,             \* per stream: the buffer attributes last requested
    stream_rate,             \* per stream: the sample rate last requested
    sink_query,              \* "none", "pending", "done": the sink-info query
    stream_q,                \* per record stream: packets peek/drop still hold
    jack_log,                \* diagnostics of the current/last JACK callback
    pulse_log,               \* diagnostics of the current/last PulseAudio callback
    port_buf,                \* capture/monitor port buffers after the last period
    pa_request,              \* <<nbytes asked for, nbytes granted>> of the last write-ready callback
    pa_written,              \* the data of the last pa_stream_write
    jack_calls,              \* history: jack_connect/jack_disconnect calls made
    enqueued,                \* history: operations given to jack_schedule_connect
    pb_sent,                 \* history: interleaved bytes of all graph periods
    pb_recv,                 \* history: bytes of all pa_stream_write calls
    pb_overflows,            \* history: number of playback overflows
    pb_underflows,           \* history: number of playback underflows
    count                    \* history: how often each kind of event happened

vars == << status, sample_rate, jack_buffer_size, rb, jack_connect_operations,
           jpc, npc, jarg, lock, ppc, pulse_context_state, stream_state, stream_attr,
           stream_rate, sink_query, stream_q, jack_log, pulse_log, port_buf,
           pa_request, pa_written, jack_calls, enqueued, pb_sent, pb_recv, pb_overflows,
           pb_underflows, count >>

jackVars == << jack_connect_operations, jack_calls, enqueued, npc >>

\* The notification thread outside jack_on_port_connect.
NotifyIdle == [pos |-> "idle", a |-> << >>, b |-> << >>, connect |-> 0]

pulseCtxVars == << pulse_context_state, stream_state, stream_attr, stream_rate,
                   sink_query >>

playbackHist == << pb_sent, pb_recv, pb_overflows, pb_underflows >>

\* A sample the scheduler's port buffer holds before the program writes it.
StaleSample == [j \in 1 .. sizeof_sample |-> 0 - 1]

\* The buffers jack_port_get_buffer hands out for an output port.
StalePortBuffers(nframes) ==
    [ch \in Channels |-> [i \in 1 .. nframes |-> StaleSample]]

\* pulse_calc_buffer_attr that asks for the size of the ring instead of one
\* period.
CalcBufferAttrOfRing(record, bufsize) ==
    [maxlength |-> 0 - 1,
     tlength   |-> IF record THEN 0 - 1
                   ELSE bufsize * (num_channels * sizeof_sample * ringbuffer_fragments),
     prebuf    |-> 0 - 1,
     minreq    |-> 0 - 1,
     fragsize  |-> IF record
                   THEN bufsize * (num_channels * sizeof_sample * ringbuffer_fragments)
                   ELSE 0 - 1]

\* pulse_calc_buffer_attr / pulse_calc_sample_spec
pulse_calc_buffer_attr(record, bufsize) ==
    [maxlength |-> 0 - 1,
     tlength   |-> IF record THEN 0 - 1 ELSE bufsize * (num_channels * sizeof_sample),
     prebuf    |-> 0 - 1,
     minreq    |-> 0 - 1,
     fragsize  |-> IF record THEN bufsize * (num_channels * sizeof_sample) ELSE 0 - 1]

NoAttr == [maxlength |-> 0, tlength |-> 0, prebuf |-> 0, minreq |-> 0, fragsize |-> 0]

pulse_is_stream_ready(p) == stream_state[p] = "ready"

\* What count counts: graph periods, write-ready callbacks, packets per record
\* stream, notifications, stream-moved callbacks; the bytes thrown away with
\* replaced rings; the values of the first counters when the rings were last
\* replaced; and the number of jack_connect/jack_disconnect calls made when
\* the last graph period began to copy data.
CountKeys == {"period", "write", "record", "monitor", "change", "event", "moved",
              "dropped", "period_at_reset", "record_at_reset", "monitor_at_reset",
              "calls_at_copy"}

\* The state after init() and the start of the mainloop in run(): ports and
\* rings exist, the context is connecting, no stream exists yet.
Init ==
    /\ status = "running"
    /\ sample_rate = InitialSampleRate
    /\ jack_buffer_size \in PeriodSizes
    /\ rb = [r \in Rings |-> jack_ringbuffer_create(RingBytes(jack_buffer_size))]
    /\ jack_connect_operations = << >>
    /\ jpc = "idle"
    /\ npc = NotifyIdle
    /\ jarg = 0
    /\ lock = "free"
    /\ ppc = "idle"
    /\ pulse_context_state = "connecting"
    /\ stream_state = [s \in Streams |-> "null"]
    /\ stream_attr = [s \in Streams |-> NoAttr]
    /\ stream_rate = [s \in Streams |-> 0]
    /\ sink_query = "none"
    /\ stream_q = [s \in {"record", "monitor"} |-> << >>]
    /\ jack_log = << >>
    /\ pulse_log = << >>
    /\ port_buf = [d \in {"capture", "monitor"} |-> StalePortBuffers(0)]
    /\ pa_request = << 0, 0 >>
    /\ pa_written = << >>
    /\ jack_calls = << >>
    /\ enqueued = << >>
    /\ pb_sent = << >>
    /\ pb_recv = << >>
    /\ pb_overflows = 0
    /\ pb_underflows = 0
    /\ count = [k \in CountKeys |-> 0]

\* A state of the running bridge: the context is ready, the sink query is
\* answered and the three streams are connected (reached from Init by
\* pulse_on_context_state, pulse_on_get_sink_info and StreamReady).
Running ==
    /\ status = "running"
    /\ pulse_context_state = "ready"
    /\ stream_state = [s \in Streams |-> "ready"]
    /\ stream_attr = [s \in Streams |->
            pulse_calc_buffer_attr(s # "playback", jack_buffer_size)]
    /\ stream_rate = [s \in Streams |-> sample_rate]
    /\ sink_query = "done"

InitRunning ==
    /\ sample_rate = InitialSampleRate
    /\ jack_buffer_size \in PeriodSizes
    /\ rb = [r \in Rings |-> jack_ringbuffer_create(RingBytes(jack_buffer_size))]
    /\ jack_connect_operations = << >>
    /\ jpc = "idle"
    /\ npc = NotifyIdle
    /\ jarg = 0
    /\ lock = "free"
    /\ ppc = "idle"
    /\ Running
    /\ stream_q = [s \in {"record", "monitor"} |-> << >>]
    /\ jack_log = << >>
    /\ pulse_log = << >>
    /\ port_buf = [d \in {"capture", "monitor"} |-> StalePortBuffers(0)]
    /\ pa_request = << 0, 0 >>
    /\ pa_written = << >>
    /\ jack_calls = << >>
    /\ enqueued = << >>
    /\ pb_sent = << >>
    /\ pb_recv = << >>
    /\ pb_overflows = 0
    /\ pb_underflows = 0
    /\ count = [k \in CountKeys |-> 0]

\* The mainloop thread dispatches callbacks only while no other thread holds
\* the mainloop lock, and one callback at a time.
PulseMayDispatch == status = "running" /\ lock = "free" /\ ppc = "idle"

\* JACK starts a callback only when no other callback of the client runs.
JackMayDispatch == status = "running" /\ jpc = "idle"

Bump(k) == [count EXCEPT ![k] = @ + 1]

\* The process dies of an uncaught exception (pulse_throw_exception or a
\* std::runtime_error thrown inside a callback).
Throw == status' = "aborted"

\* ------------------------------------------------------------------------
\* Streaming side: the context and the streams

\* pulse_on_context_state, PA_CONTEXT_READY branch: the three streams are
\* created, playback and record are connected, the sink query is issued.
CreateStreams ==
    /\ stream_state' = [stream_state EXCEPT !["playback"] = "creating",
                                            !["record"] = "creating",
                                            !["monitor"] = "unconnected"]
    /\ stream_attr' = [stream_attr EXCEPT
            !["playback"] = pulse_calc_buffer_attr(FALSE, jack_buffer_size),
            !["record"] = pulse_calc_buffer_attr(TRUE, jack_buffer_size)]
    /\ stream_rate' = [s \in Streams |-> sample_rate]
    /\ sink_query' = "pending"

\* pulse_on_context_state that treats PA_CONTEXT_FAILED like the states of the
\* default branch.
ContextStateIgnoringFailure(st, ok) ==
    /\ PulseMayDispatch
    /\ \/ pulse_context_state = "connecting" /\ st \in {"authorizing", "ready", "failed"}
       \/ pulse_context_state = "authorizing" /\ st \in {"ready", "failed"}
       \/ pulse_context_state = "ready" /\ st \in {"failed", "terminated"}
    /\ pulse_context_state' = st
    /\ CASE st = "ready" /\ ok ->
                /\ CreateStreams
                /\ UNCHANGED status
         [] st = "ready" /\ ~ok ->
                /\ Throw
                /\ UNCHANGED << stream_state, stream_attr, stream_rate, sink_query >>
         [] st = "terminated" ->
                /\ status' = "exited"
                /\ UNCHANGED << stream_state, stream_attr, stream_rate, sink_query >>
         [] OTHER ->
                UNCHANGED << status, stream_state, stream_attr, stream_rate, sink_query >>
    /\ UNCHANGED << sample_rate, jack_buffer_size, rb, jackVars, jpc, jarg, lock, ppc,
                    stream_q, jack_log, pulse_log, port_buf, pa_request, pa_written,
                    playbackHist, count >>

\* pulse_on_context_state: the context reports state st; ok is whether every
\* PulseAudio call of the READY branch succeeds.
pulse_on_context_state(st, ok) ==
    /\ PulseMayDispatch
    /\ \/ pulse_context_state = "connecting" /\ st \in {"authorizing", "ready", "failed"}
       \/ pulse_context_state = "authorizing" /\ st \in {"ready", "failed"}
       \/ pulse_context_state = "ready" /\ st \in {"failed", "terminated"}
    /\ pulse_context_state' = st
    /\ CASE st = "ready" /\ ok ->
                /\ CreateStreams
                /\ UNCHANGED status
         [] st = "ready" /\ ~ok ->
                /\ Throw
                /\ UNCHANGED << stream_state, stream_attr, stream_rate, sink_query >>
         [] st = "failed" ->
                /\ Throw
                /\ UNCHANGED << stream_state, stream_attr, stream_rate, sink_query >>
         [] st = "terminated" ->
                /\ status' = "exited"
                /\ UNCHANGED << stream_state, stream_attr, stream_rate, sink_query >>
         [] OTHER ->
                UNCHANGED << status, stream_state, stream_attr, stream_rate, sink_query >>
    /\ UNCHANGED << sample_rate, jack_buffer_size, rb, jackVars, jpc, jarg, lock, ppc,
                    stream_q, jack_log, pulse_log, port_buf, pa_request, pa_written,
                    playbackHist, count >>

\* The server reports a connected stream: PA_STREAM_CREATING -> PA_STREAM_READY.
StreamReady(s) ==
    /\ PulseMayDispatch
    /\ stream_state[s] = "creating"
    /\ stream_state' = [stream_state EXCEPT ![s] = "ready"]
    /\ UNCHANGED << status, sample_rate, jack_buffer_size, rb, jackVars, jpc, jarg,
                    lock, ppc, pulse_context_state, stream_attr, stream_rate,
                    sink_query, stream_q, jack_log, pulse_log, port_buf, pa_request, pa_written,
                    playbackHist, count >>

\* pulse_on_get_sink_info: kind "error" is eol < 0, "info" is a sink
\* description (i != nullptr), "end" is the end of the list (i == nullptr).
pulse_on_get_sink_info(kind, ok) ==
    /\ PulseMayDispatch
    /\ \/ sink_query = "pending" /\ kind \in {"error", "info"}
       \/ sink_query = "answered" /\ kind = "end"
    /\ CASE kind = "error" ->
                /\ Throw
                /\ UNCHANGED << stream_state, stream_attr, sink_query >>
         [] kind = "info" /\ ~ok ->
                /\ Throw
                /\ UNCHANGED << stream_state, stream_attr, sink_query >>
         [] kind = "info" /\ ok ->
                /\ stream_state' = [stream_state EXCEPT !["monitor"] = "creating"]
                /\ stream_attr' = [stream_attr EXCEPT
                        !["monitor"] = pulse_calc_buffer_attr(TRUE, jack_buffer_size)]
                /\ sink_query' = "answered"
                /\ UNCHANGED status
         [] OTHER ->
                /\ sink_query' = "done"
                /\ UNCHANGED << status, stream_state, stream_attr >>
    /\ UNCHANGED << sample_rate, jack_buffer_size, rb, jackVars, jpc, jarg, lock, ppc,
                    pulse_context_state, stream_rate, stream_q, jack_log, pulse_log,
                    port_buf, pa_request, pa_written, playbackHist, count >>

\* ------------------------------------------------------------------------
\* Playback direction

\* The samples the graph hands to the playback ports in period k: port
\* buffer ch, frame i, byte j, each byte a token of its own.
MaxPeriodSize == CHOOSE m \in PeriodSizes : \A n \in PeriodSizes : n <= m

PortInput(k, nframes) ==
    [ch \in Channels |-> [i \in 1 .. nframes |-> [j \in 1 .. sizeof_sample |->
        ((k * MaxPeriodSize + (i - 1)) * num_channels + ch) * sizeof_sample + j]]]

\* *(pulse_sample_t*) &vector[..].buf[..] = sample: the sample goes to the
\* first piece when its offset lies in it, else to the second piece.
SampleAddress(vec, offset) ==
    IF offset < vec[1].len
    THEN vec[1].start + offset
    ELSE vec[2].start + (offset - vec[1].len)

\* StoreSamples with the channels written one after the other (planar)
\* instead of interleaved.
StoreSamplesPlanar(ring, vec, jack_buffer, index, nframes) ==
    CopyIn(ring, vec[1].start,
           [k \in 1 .. nframes * frame_size |->
               jack_buffer[(k - 1) \div (nframes * sizeof_sample)]
                          [(((k - 1) \div sizeof_sample) % nframes) + 1]
                          [((k - 1) % sizeof_sample) + 1]])

\* The loop of jack_on_process over i and ch, from sample number index on.
RECURSIVE StoreSamples(_, _, _, _, _)
StoreSamples(ring, vec, jack_buffer, index, nframes) ==
    IF index >= nframes * num_channels THEN ring
    ELSE LET i      == index \div num_channels
             ch     == index % num_channels
             offset == index * sizeof_sample
         IN  StoreSamples(CopyIn(ring, SampleAddress(vec, offset), jack_buffer[ch][i + 1]),
                          vec, jack_buffer, index + 1, nframes)

\* A sample is stored outside the ring's memory (heap overflow).
StoresOutOfBounds(ring, vec, nframes) ==
    \E index \in 0 .. nframes * num_channels - 1 :
        SampleAddress(vec, index * sizeof_sample) + sizeof_sample > ring.size

\* ProcessPlayback that writes as many whole samples as fit instead of
\* skipping the period.
ProcessPlaybackPartial(ring, jack_buffer, nframes) ==
    LET buffer_space    == jack_ringbuffer_write_space(ring)
        buffer_required == nframes * (num_channels * sizeof_sample)
        fits            == Min(buffer_required, (buffer_space \div sizeof_sample) * sizeof_sample)
    IN  [ring |-> jack_ringbuffer_write(ring,
                      [k \in 1 .. fits |->
                          jack_buffer[((k - 1) \div sizeof_sample) % num_channels]
                                     [((k - 1) \div frame_size) + 1]
                                     [((k - 1) % sizeof_sample) + 1]]),
         log  |-> IF buffer_space >= buffer_required THEN << >>
                  ELSE << << "Playback buffer overflow", buffer_space, buffer_required >> >>,
         oob  |-> FALSE]

\* jack_on_process, "Copy playback stream": [ring, log, oob].
ProcessPlayback(ring, jack_buffer, nframes) ==
    LET buffer_space    == jack_ringbuffer_write_space(ring)
        buffer_required == nframes * (num_channels * sizeof_sample)
        write_vector    == jack_ringbuffer_get_write_vector(ring)
    IN  IF buffer_space >= buffer_required
        THEN [ring |-> jack_ringbuffer_write_advance(
                           StoreSamples(ring, write_vector, jack_buffer, 0, nframes),
                           buffer_required),
              log  |-> << >>,
              oob  |-> StoresOutOfBounds(ring, write_vector, nframes)]
        ELSE [ring |-> ring,
              log  |-> << << "Playback buffer overflow", buffer_space, buffer_required >> >>,
              oob  |-> FALSE]

\* PlaybackReply that hands over the bytes the ring has and zero-fills only
\* the shortfall.
PlaybackReplyShortfall(ring, nbytes_writable) ==
    LET nbytes_readable == jack_ringbuffer_read_space(ring)
        got             == jack_ringbuffer_read(ring, nbytes_writable)
    IN  [data |-> got[1] \o [k \in 1 .. nbytes_writable - Len(got[1]) |-> 0],
         ring |-> got[2],
         log  |-> IF nbytes_readable >= nbytes_writable THEN << >>
                  ELSE << << "Playback buffer underflow", nbytes_readable, nbytes_writable >> >>]

\* pulse_on_playback_writable between pa_stream_begin_write and
\* pa_stream_write: [data, ring, log] for a buffer of nbytes_writable bytes.
PlaybackReply(ring, nbytes_writable) ==
    LET nbytes_readable == jack_ringbuffer_read_space(ring)
    IN  IF nbytes_readable >= nbytes_writable
        THEN [data |-> jack_ringbuffer_read(ring, nbytes_writable)[1],
              ring |-> jack_ringbuffer_read(ring, nbytes_writable)[2],
              log  |-> << >>]
        ELSE [data |-> [k \in 1 .. nbytes_writable |-> 0],
              ring |-> ring,
              log  |-> << << "Playback buffer underflow", nbytes_readable, nbytes_writable >> >>]

\* pulse_on_playback_writable that gives up on an underflow.
PlaybackWritableFatalUnderflow(nbytes, nbytes_writable, ok) ==
    /\ PulseMayDispatch
    /\ pulse_is_stream_ready("playback")
    /\ count["write"] < MaxWrites
    /\ nbytes_writable <= nbytes
    /\ count' = Bump("write")
    /\ IF ok /\ jack_ringbuffer_read_space(rb["playback"]) >= nbytes_writable
       THEN LET reply == PlaybackReply(rb["playback"], nbytes_writable)
            IN  /\ rb' = [rb EXCEPT !["playback"] = reply.ring]
                /\ pulse_log' = reply.log
                /\ pa_request' = << nbytes, nbytes_writable >>
                /\ pa_written' = reply.data
                /\ pb_recv' = pb_recv \o reply.data
                /\ pb_underflows' = pb_underflows + Len(reply.log)
                /\ UNCHANGED status
       ELSE /\ Throw
            /\ UNCHANGED << rb, pulse_log, pa_request, pa_written, pb_recv, pb_underflows >>
    /\ UNCHANGED << sample_rate, jack_buffer_size, jackVars, jpc, jarg, lock, ppc,
                    pulseCtxVars, stream_q, jack_log, port_buf, pb_sent, pb_overflows >>

\* pulse_on_playback_writable: the server asks for nbytes; pa_stream_begin_write
\* grants a buffer of nbytes_writable <= nbytes bytes; ok is whether
\* pa_stream_begin_write and pa_stream_write succeed.
pulse_on_playback_writable(nbytes, nbytes_writable, ok) ==
    /\ PulseMayDispatch
    /\ pulse_is_stream_ready("playback")
    /\ count["write"] < MaxWrites
    /\ nbytes_writable <= nbytes
    /\ count' = Bump("write")
    /\ IF ok
       THEN LET reply == PlaybackReply(rb["playback"], nbytes_writable)
            IN  /\ rb' = [rb EXCEPT !["playback"] = reply.ring]
                /\ pulse_log' = reply.log
                /\ pa_request' = << nbytes, nbytes_writable >>
                /\ pa_written' = reply.data
                /\ pb_recv' = pb_recv \o reply.data
                /\ pb_underflows' = pb_underflows + Len(reply.log)
                /\ UNCHANGED status
       ELSE /\ Throw
            /\ UNCHANGED << rb, pulse_log, pa_request, pa_written, pb_recv, pb_underflows >>
    /\ UNCHANGED << sample_rate, jack_buffer_size, jackVars, jpc, jarg, lock, ppc,
                    pulseCtxVars, stream_q, jack_log, port_buf, pb_sent, pb_overflows >>

\* ------------------------------------------------------------------------
\* Capture and monitor directions, graph side

\* jack_buffer[ch][i] = *(pulse_sample_t*) &vector[..].buf[..]
LoadSample(ring, vec, offset) ==
    IF SampleAddress(vec, offset) + sizeof_sample > ring.size
    THEN StaleSample
    ELSE CopyOut(ring, SampleAddress(vec, offset), sizeof_sample)

\* ProcessRecord that on underflow hands out the whole frames the ring has.
ProcessRecordPartial(ring, nframes, name) ==
    LET buffer_space    == jack_ringbuffer_read_space(ring)
        buffer_required == nframes * (num_channels * sizeof_sample)
        have            == Min(nframes, buffer_space \div frame_size)
        read_vector     == jack_ringbuffer_get_read_vector(ring)
    IN  [ring |-> jack_ringbuffer_read_advance(ring, have * frame_size),
         buf  |-> [ch \in Channels |-> [i \in 1 .. nframes |->
                     IF i <= have
                     THEN LoadSample(ring, read_vector,
                                     ((i - 1) * num_channels + ch) * sizeof_sample)
                     ELSE StaleSample]],
         log  |-> IF buffer_space >= buffer_required THEN << >>
                  ELSE << << name \o " buffer underflow", buffer_space, buffer_required >> >>,
         oob  |-> FALSE]

\* jack_on_process, "Copy record stream" and "Copy monitor stream":
\* [ring, buf, log, oob]; name is "Record" or "Monitor".
ProcessRecord(ring, nframes, name) ==
    LET buffer_space    == jack_ringbuffer_read_space(ring)
        buffer_required == nframes * (num_channels * sizeof_sample)
        read_vector     == jack_ringbuffer_get_read_vector(ring)
    IN  IF buffer_space >= buffer_required
        THEN [ring |-> jack_ringbuffer_read_advance(ring, buffer_required),
              buf  |-> [ch \in Channels |-> [i \in 1 .. nframes |->
                          LoadSample(ring, read_vector,
                                     ((i - 1) * num_channels + ch) * sizeof_sample)]],
              log  |-> << >>,
              oob  |-> StoresOutOfBounds(ring, read_vector, nframes)]
        ELSE [ring |-> ring,
              buf  |-> StalePortBuffers(nframes),
              log  |-> << << name \o " buffer underflow", buffer_space, buffer_required >> >>,
              oob  |-> FALSE]

\* ------------------------------------------------------------------------
\* Port mirroring

JopaClient == "JACK over PulseAudio"

Port(client, short) == [client |-> client, short |-> short]

\* jack_port_short_name of jack_capture_ports[ch] / jack_playback_ports[ch]
CaptureShortName(ch) == << "capture_1", "capture_2" >>[ch + 1]

PlaybackShortName(ch) == << "playback_1", "playback_2" >>[ch + 1]

\* Ports a topology notification may name as source (a) and destination (b).
EventSources == { Port("system", "capture_2"), Port("system", "midi_capture_1"),
                  Port("app", "out_1"), Port(JopaClient, "capture_1") }

EventDests == { Port("system", "playback_1"), Port("app", "in_1"),
                Port(JopaClient, "playback_1") }

\* jack_schedule_connect: the queue after the push.
jack_schedule_connect(queue, port_name_a, port_name_b, connect) ==
    Append(queue, [port_name_a |-> port_name_a, port_name_b |-> port_name_b,
                   connect |-> connect])

\* The for loops of jack_on_port_connect: the first channel whose port has
\* the short name, or none.
CaptureChannels(short) == {ch \in Channels : CaptureShortName(ch) = short}

PlaybackChannels(short) == {ch \in Channels : PlaybackShortName(ch) = short}

FirstChannel(chs) == CHOOSE ch \in chs : \A other \in chs : ch <= other

\* MirrorCapture without the test of the "system:" prefix.
MirrorCaptureAnyClient(queue, a, b, connect) ==
    IF CaptureChannels(a.short) # {}
    THEN jack_schedule_connect(queue,
            Port(JopaClient,
                 CaptureShortName(FirstChannel(CaptureChannels(a.short)))),
            b, connect # 0)
    ELSE queue

\* jack_on_port_connect, "Search for system:capture ports"
MirrorCapture(queue, a, b, connect) ==
    IF a.client = "system" /\ CaptureChannels(a.short) # {}
    THEN jack_schedule_connect(queue,
            Port(JopaClient,
                 CaptureShortName(FirstChannel(CaptureChannels(a.short)))),
            b, connect # 0)
    ELSE queue

\* jack_on_port_connect, "Search for system:playback ports"
MirrorPlayback(queue, a, b, connect) ==
    IF b.client = "system" /\ PlaybackChannels(b.short) # {}
    THEN jack_schedule_connect(queue, a,
            Port(JopaClient,
                 PlaybackShortName(FirstChannel(PlaybackChannels(b.short)))),
            connect # 0)
    ELSE queue

\* jack_on_port_connect: JACK reports that a and b were connected
\* (connect # 0) or disconnected (connect = 0).
jack_on_port_connect(a, b, connect) ==
    /\ JackMayDispatch
    /\ npc = NotifyIdle
    /\ count["event"] < MaxEvents
    /\ count' = Bump("event")
    /\ jack_connect_operations' =
            MirrorPlayback(MirrorCapture(jack_connect_operations, a, b, connect),
                           a, b, connect)
    /\ enqueued' = enqueued \o
            SubSeq(jack_connect_operations', Len(jack_connect_operations) + 1,
                   Len(jack_connect_operations'))
    /\ jack_log' = << << IF connect # 0 THEN "=====>" ELSE "==X==>", a, b >> >>
    /\ UNCHANGED << status, sample_rate, jack_buffer_size, rb, jpc, npc, jarg, lock,
                    ppc, pulseCtxVars, stream_q, pulse_log, port_buf, pa_request,
                    pa_written, jack_calls, playbackHist >>

\* One pass of the loop of jack_finish_connect: the call made for the front
\* operation.
ConnectCall(operation) ==
    IF operation.connect
    THEN [fn |-> "jack_connect", a |-> operation.port_name_a, b |-> operation.port_name_b]
    ELSE [fn |-> "jack_disconnect", a |-> operation.port_name_a, b |-> operation.port_name_b]

\* jack_finish_connect taking the newest operation first.
RECURSIVE FinishConnectNewestFirst(_, _)
FinishConnectNewestFirst(queue, calls) ==
    IF queue = << >> THEN << queue, calls >>
    ELSE FinishConnectNewestFirst(SubSeq(queue, 1, Len(queue) - 1),
                                  Append(calls, ConnectCall(queue[Len(queue)])))

\* jack_finish_connect: <<queue afterwards, calls made>>.
RECURSIVE jack_finish_connect(_, _)
jack_finish_connect(queue, calls) ==
    IF queue = << >> THEN << queue, calls >>
    ELSE jack_finish_connect(Tail(queue), Append(calls, ConnectCall(Head(queue))))

\* ------------------------------------------------------------------------
\* jack_on_port_connect on JACK's notification thread, statement by statement

\* The thread is inside a call of jack_schedule_connect.
PushPositions == {"capture_push", "playback_push"}

\* lines 483-493: JACK reports (a, b, connect) on its notification thread,
\* which is not the thread of the periodic callback.
NotifyEnter(a, b, connect) ==
    /\ status = "running"
    /\ npc = NotifyIdle
    /\ count["event"] < MaxEvents
    /\ count' = Bump("event")
    /\ npc' = [pos |-> "capture", a |-> a, b |-> b, connect |-> connect]
    /\ UNCHANGED << status, sample_rate, jack_buffer_size, rb, jack_connect_operations,
                    jack_calls, enqueued, jpc, jarg, lock, ppc, pulseCtxVars, stream_q,
                    jack_log, pulse_log, port_buf, pa_request, pa_written, playbackHist >>

\* lines 496-498 and 506-508: the test of one endpoint; the thread enters
\* jack_schedule_connect if the endpoint is a mirrored system port.
NotifyTest ==
    /\ status = "running"
    /\ npc.pos \in {"capture", "playback"}
    /\ npc' = [npc EXCEPT !.pos =
            IF npc.pos = "capture"
            THEN (IF MirrorCapture(<< >>, npc.a, npc.b, npc.connect) # << >>
                  THEN "capture_push" ELSE "playback")
            ELSE (IF MirrorPlayback(<< >>, npc.a, npc.b, npc.connect) # << >>
                  THEN "playback_push" ELSE "print")]
    /\ UNCHANGED << status, sample_rate, jack_buffer_size, rb, jack_connect_operations,
                    jack_calls, enqueued, jpc, jarg, lock, ppc, pulseCtxVars, stream_q,
                    jack_log, pulse_log, port_buf, pa_request, pa_written, playbackHist,
                    count >>

\* lines 499 and 509: jack_schedule_connect returns, the operation is in the
\* queue.
NotifyPush ==
    /\ status = "running"
    /\ npc.pos \in PushPositions
    /\ jack_connect_operations' =
            IF npc.pos = "capture_push"
            THEN MirrorCapture(jack_connect_operations, npc.a, npc.b, npc.connect)
            ELSE MirrorPlayback(jack_connect_operations, npc.a, npc.b, npc.connect)
    /\ enqueued' = Append(enqueued,
                          jack_connect_operations'[Len(jack_connect_operations')])
    /\ npc' = [npc EXCEPT !.pos = IF npc.pos = "capture_push" THEN "playback"
                                  ELSE "print"]
    /\ UNCHANGED << status, sample_rate, jack_buffer_size, rb, jack_calls, jpc, jarg,
                    lock, ppc, pulseCtxVars, stream_q, jack_log, pulse_log, port_buf,
                    pa_request, pa_written, playbackHist, count >>

\* lines 515-521: the line of the report, return.
NotifyReturn ==
    /\ status = "running"
    /\ npc.pos = "print"
    /\ jack_log' = << << IF npc.connect # 0 THEN "=====>" ELSE "==X==>", npc.a, npc.b >> >>
    /\ npc' = NotifyIdle
    /\ UNCHANGED << status, sample_rate, jack_buffer_size, rb, jack_connect_operations,
                    jack_calls, enqueued, jpc, jarg, lock, ppc, pulseCtxVars, stream_q,
                    pulse_log, port_buf, pa_request, pa_written, playbackHist, count >>

\* ------------------------------------------------------------------------
\* The periodic callback

\* jack_on_process with the queue drained after the three copies.
CallsAtCopyDrainLast(calls_before, calls_made) == Len(calls_before)

\* jack_on_process calls jack_finish_connect first (line 305) and copies
\* afterwards (from line 307): the number of jack_connect/jack_disconnect
\* calls made so far when the copying begins.
CallsAtCopy(calls_before, calls_made) == Len(calls_before) + Len(calls_made)

\* jack_on_process: one graph period of nframes frames.  JACK calls it with
\* the block size it last announced.
jack_on_process(nframes) ==
    /\ JackMayDispatch
    /\ npc.pos \notin PushPositions
    /\ count["period"] < MaxPeriods
    /\ nframes = jack_buffer_size
    /\ count' = [Bump("period") EXCEPT !["calls_at_copy"] =
            CallsAtCopy(jack_calls,
                        jack_finish_connect(jack_connect_operations, << >>)[2])]
    /\ LET finished == jack_finish_connect(jack_connect_operations, << >>)
           jack_buffer == PortInput(count["period"], nframes)
           playback == ProcessPlayback(rb["playback"], jack_buffer, nframes)
           capture  == ProcessRecord(rb["capture"], nframes, "Record")
           monitor  == ProcessRecord(rb["monitor"], nframes, "Monitor")
       IN  /\ jack_connect_operations' = finished[1]
           /\ jack_calls' = jack_calls \o finished[2]
           /\ rb' = [rb EXCEPT !["playback"] = playback.ring,
                               !["capture"] = capture.ring,
                               !["monitor"] = monitor.ring]
           /\ port_buf' = [port_buf EXCEPT !["capture"] = capture.buf,
                                           !["monitor"] = monitor.buf]
           /\ jack_log' = playback.log \o capture.log \o monitor.log
           /\ pb_sent' = pb_sent \o
                [k \in 1 .. nframes * frame_size |->
                    jack_buffer[((k - 1) \div sizeof_sample) % num_channels]
                               [((k - 1) \div frame_size) + 1]
                               [((k - 1) % sizeof_sample) + 1]]
           /\ pb_overflows' = pb_overflows + Len(playback.log)
           /\ status' = IF playback.oob \/ capture.oob \/ monitor.oob
                        THEN "undefined" ELSE status
    /\ UNCHANGED << sample_rate, jack_buffer_size, jpc, npc, jarg, lock, ppc,
                    pulseCtxVars, stream_q, pulse_log, pa_request, pa_written, enqueued,
                    pb_recv, pb_underflows >>

\* jack_on_process entered while the notification thread is inside
\* jack_schedule_connect: jack_finish_connect reads and pops the std::queue
\* that the other thread is pushing to, without any synchronisation.  What a
\* data race on the container does is not defined.
jack_on_process_racing(nframes) ==
    /\ JackMayDispatch
    /\ npc.pos \in PushPositions
    /\ count["period"] < MaxPeriods
    /\ nframes = jack_buffer_size
    /\ count' = Bump("period")
    /\ status' = "undefined"
    /\ UNCHANGED << sample_rate, jack_buffer_size, rb, jackVars, jpc, jarg, lock, ppc,
                    pulseCtxVars, stream_q, jack_log, pulse_log, port_buf, pa_request,
                    pa_written, playbackHist >>

\* ------------------------------------------------------------------------
\* Capture and monitor directions, streaming side

\* The ring a record stream feeds and the name its diagnostics use.
RingOf(s) == IF s = "record" THEN "capture" ELSE "monitor"

NameOf(s) == IF s = "record" THEN "Record" ELSE "Monitor"

\* What the server may send on a record stream: a data packet of nbytes
\* bytes, or a hole of nbytes bytes (pa_stream_peek gives data == nullptr).
HoleSizes == {8}

\* 12 is not a whole number of frames.
PacketSizes == {8, 12, 16}

PacketKinds == [hole : {FALSE}, nbytes : PacketSizes] \cup [hole : {TRUE}, nbytes : HoleSizes]

MaxPulseSize == CHOOSE m \in PacketSizes : \A n \in PacketSizes : n <= m

StreamBase(s) == IF s = "record" THEN 1000 ELSE 2000

\* Packet number k of stream s: every payload byte a token of its own.
Packet(s, k, kind) ==
    [hole   |-> kind.hole,
     nbytes |-> kind.nbytes,
     data   |-> IF kind.hole THEN << >>
                ELSE [j \in 1 .. kind.nbytes |->
                        StreamBase(s) + k * MaxPulseSize + j]]

\* The server sent the packets kinds on stream s and the mainloop calls the
\* read callback: entry of pulse_on_record_readable / pulse_on_monitor_readable.
ReadableEnter(s, kinds) ==
    /\ PulseMayDispatch
    /\ pulse_is_stream_ready(s)
    /\ count["record"] + count["monitor"] + Len(kinds) <= MaxPackets
    /\ count' = [count EXCEPT ![s] = @ + Len(kinds)]
    /\ stream_q' = [stream_q EXCEPT ![s] =
            [k \in 1 .. Len(kinds) |-> Packet(s, count[s] + k - 1, kinds[k])]]
    /\ ppc' = s
    /\ pulse_log' = << >>
    /\ UNCHANGED << status, sample_rate, jack_buffer_size, rb, jackVars, jpc, jarg, lock,
                    pulseCtxVars, jack_log, port_buf, pa_request, pa_written, playbackHist >>

\* ReadablePass without the test of the write space: jack_ringbuffer_write
\* then writes as much of the packet as fits.
ReadablePassUnchecked(ring, packet, name) ==
    LET nbytes_readable == packet.nbytes
        nbytes_writable == jack_ringbuffer_write_space(ring)
    IN  IF ~packet.hole
        THEN [ring |-> jack_ringbuffer_write(ring, packet.data),
              log  |-> IF nbytes_writable >= nbytes_readable THEN << >>
                       ELSE << << name \o " buffer overflow", nbytes_writable, nbytes_readable >> >>,
              drop |-> TRUE]
        ELSE [ring |-> ring,
              log  |-> << << name \o " buffer overflow", nbytes_readable >> >>,
              drop |-> TRUE]

\* ReadablePass that fills a hole with silence instead of skipping it.
ReadablePassSilence(ring, packet, name) ==
    LET nbytes_readable == packet.nbytes
        nbytes_writable == jack_ringbuffer_write_space(ring)
    IN  IF ~packet.hole
        THEN IF nbytes_writable >= nbytes_readable
             THEN [ring |-> jack_ringbuffer_write(ring, packet.data),
                   log  |-> << >>,
                   drop |-> TRUE]
             ELSE [ring |-> ring,
                   log  |-> << << name \o " buffer overflow", nbytes_writable, nbytes_readable >> >>,
                   drop |-> TRUE]
        ELSE [ring |-> jack_ringbuffer_write(ring, [k \in 1 .. nbytes_readable |-> 0]),
              log  |-> << << name \o " buffer overflow", nbytes_readable >> >>,
              drop |-> TRUE]

\* One pass of the while loop for the packet pa_stream_peek returns:
\* [ring, log, drop]; drop is whether pa_stream_drop is called.  The
\* diagnostic of a discarded packet is <<message, space, length>>, that of a
\* hole <<message, length>>.
ReadablePass(ring, packet, name) ==
    LET nbytes_readable == packet.nbytes
        nbytes_writable == jack_ringbuffer_write_space(ring)
    IN  IF ~packet.hole
        THEN IF nbytes_writable >= nbytes_readable
             THEN [ring |-> jack_ringbuffer_write(ring, packet.data),
                   log  |-> << >>,
                   drop |-> TRUE]
             ELSE [ring |-> ring,
                   log  |-> << << name \o " buffer overflow", nbytes_writable, nbytes_readable >> >>,
                   drop |-> TRUE]
        ELSE IF nbytes_readable # 0
             THEN [ring |-> ring,
                   log  |-> << << name \o " buffer overflow", nbytes_readable >> >>,
                   drop |-> TRUE]
             ELSE [ring |-> ring, log |-> << >>, drop |-> FALSE]

\* pa_stream_readable_size(p) > 0, and one pass of the loop; ok is whether
\* pa_stream_peek and pa_stream_drop succeed.
ReadableLoop(s, ok) ==
    /\ status = "running"
    /\ ppc = s
    /\ stream_q[s] # << >>
    /\ IF ok
       THEN LET pass == ReadablePass(rb[RingOf(s)], Head(stream_q[s]), NameOf(s))
            IN  /\ rb' = [rb EXCEPT ![RingOf(s)] = pass.ring]
                /\ pulse_log' = pulse_log \o pass.log
                /\ stream_q' = [stream_q EXCEPT ![s] = IF pass.drop THEN Tail(@) ELSE @]
                /\ UNCHANGED status
       ELSE /\ Throw
            /\ UNCHANGED << rb, pulse_log, stream_q >>
    /\ UNCHANGED << sample_rate, jack_buffer_size, jackVars, jpc, jarg, lock, ppc,
                    pulseCtxVars, jack_log, port_buf, pa_request, pa_written,
                    playbackHist, count >>

\* pa_stream_readable_size(p) == 0: the callback returns.
ReadableReturn(s) ==
    /\ status = "running"
    /\ ppc = s
    /\ stream_q[s] = << >>
    /\ ppc' = "idle"
    /\ UNCHANGED << status, sample_rate, jack_buffer_size, rb, jackVars, jpc, jarg, lock,
                    pulseCtxVars, stream_q, jack_log, pulse_log, port_buf, pa_request,
                    pa_written, playbackHist, count >>

PacketRuns == {<< k >> : k \in PacketKinds} \cup {<< k, l >> : k, l \in PacketKinds}

pulse_on_record_readable ==
    \/ \E kinds \in PacketRuns : ReadableEnter("record", kinds)
    \/ \E ok \in BOOLEAN : ReadableLoop("record", ok)
    \/ ReadableReturn("record")

pulse_on_monitor_readable ==
    \/ \E kinds \in PacketRuns : ReadableEnter("monitor", kinds)
    \/ \E ok \in BOOLEAN : ReadableLoop("monitor", ok)
    \/ ReadableReturn("monitor")

\* ------------------------------------------------------------------------
\* Reconfiguration

\* The ring that stands in for ring after the block-size change.
ResizeRingInPlace(ring, nframes) ==
    [ring EXCEPT !.size = RingBytes(nframes),
                 !.buf = [k \in 0 .. RingBytes(nframes) - 1 |->
                            IF k < ring.size THEN ring.buf[k] ELSE 0],
                 !.read_ptr = ring.read_ptr % RingBytes(nframes),
                 !.write_ptr = ring.write_ptr % RingBytes(nframes)]

\* jack_ringbuffer_free followed by jack_ringbuffer_create for the new size.
ReplaceRing(ring, nframes) == jack_ringbuffer_create(RingBytes(nframes))

\* Positions of the JACK thread inside jack_on_buffer_size.
AttrPos(s) == "bs_attr_" \o s

RingPos(r) == "bs_ring_" \o r

AfterAttr(s) ==
    CASE s = "playback" -> AttrPos("record")
      [] s = "record" -> AttrPos("monitor")
      [] OTHER -> "bs_lock"

AfterRing(r) ==
    CASE r = "playback" -> RingPos("capture")
      [] r = "capture" -> RingPos("monitor")
      [] OTHER -> "bs_unlock"

\* jack_on_buffer_size, line 407: JACK announces the block size nframes.  The
\* unnamed PulseThreadedMainloopLocker is a temporary: its constructor takes
\* the mainloop lock and its destructor gives it back in the same statement.
BufferSizeEnter(nframes) ==
    /\ JackMayDispatch
    /\ count["change"] < MaxChanges
    /\ lock = "free" /\ ppc = "idle"
    /\ jpc' = "bs_set"
    /\ jarg' = nframes
    /\ count' = Bump("change")
    /\ jack_log' = << >>
    /\ UNCHANGED << status, sample_rate, jack_buffer_size, rb, jackVars, lock, ppc,
                    pulseCtxVars, stream_q, pulse_log, port_buf, pa_request,
                    pa_written, playbackHist >>

\* line 410: self->jack_buffer_size = nframes (lines 411-412 compute the
\* attributes from it).
BufferSizeSet ==
    /\ status = "running" /\ jpc = "bs_set"
    /\ jack_buffer_size' = jarg
    /\ jpc' = AttrPos("playback")
    /\ UNCHANGED << status, sample_rate, rb, jackVars, jarg, lock, ppc, pulseCtxVars,
                    stream_q, jack_log, pulse_log, port_buf, pa_request, pa_written,
                    playbackHist, count >>

\* lines 413-427, one stream: pa_stream_set_buffer_attr if the stream is
\* ready; ok is whether it returns an operation.
BufferSizeAttr(s, ok) ==
    /\ status = "running" /\ jpc = AttrPos(s)
    /\ IF pulse_is_stream_ready(s) /\ ~ok
       THEN /\ Throw
            /\ UNCHANGED << jpc, stream_attr >>
       ELSE /\ jpc' = AfterAttr(s)
            /\ stream_attr' =
                    IF pulse_is_stream_ready(s)
                    THEN [stream_attr EXCEPT
                            ![s] = pulse_calc_buffer_attr(s # "playback", jack_buffer_size)]
                    ELSE stream_attr
            /\ UNCHANGED status
    /\ UNCHANGED << sample_rate, jack_buffer_size, rb, jackVars, jarg, lock, ppc,
                    pulse_context_state, stream_state, stream_rate, sink_query,
                    stream_q, jack_log, pulse_log, port_buf, pa_request, pa_written,
                    playbackHist, count >>

\* The lock taken without waiting for the callback the mainloop thread is
\* running.
BufferSizeLockNoWait ==
    /\ status = "running" /\ jpc = "bs_lock"
    /\ lock = "free"
    /\ lock' = "jack"
    /\ jpc' = RingPos("playback")
    /\ UNCHANGED << status, sample_rate, jack_buffer_size, rb, jackVars, jarg, ppc,
                    pulseCtxVars, stream_q, jack_log, pulse_log, port_buf, pa_request,
                    pa_written, playbackHist, count >>

\* line 431: the constructor of locker takes the mainloop lock; it waits
\* while the mainloop thread runs a callback.
BufferSizeLock ==
    /\ status = "running" /\ jpc = "bs_lock"
    /\ lock = "free" /\ ppc = "idle"
    /\ lock' = "jack"
    /\ jpc' = RingPos("playback")
    /\ UNCHANGED << status, sample_rate, jack_buffer_size, rb, jackVars, jarg, ppc,
                    pulseCtxVars, stream_q, jack_log, pulse_log, port_buf, pa_request,
                    pa_written, playbackHist, count >>

\* lines 432-446, one ring: free, create, throw if the allocation failed
\* (ok = FALSE).  Whether the stack is unwound, and the lock given back,
\* before an uncaught exception ends the process is left to the build.
BufferSizeRing(r, ok) ==
    /\ status = "running" /\ jpc = RingPos(r)
    /\ IF ok
       THEN /\ rb' = [rb EXCEPT ![r] = ReplaceRing(rb[r], jack_buffer_size)]
            /\ count' = [count EXCEPT
                    !["dropped"] = @ + jack_ringbuffer_read_space(rb[r])]
            /\ jpc' = AfterRing(r)
            /\ UNCHANGED << status, lock >>
       ELSE /\ Throw
            /\ lock' \in {"free", "jack"}
            /\ UNCHANGED << rb, count, jpc >>
    /\ UNCHANGED << sample_rate, jack_buffer_size, jackVars, jarg, ppc, pulseCtxVars,
                    stream_q, jack_log, pulse_log, port_buf, pa_request, pa_written,
                    playbackHist >>

\* line 447: the destructor of locker gives the lock back.
BufferSizeUnlock ==
    /\ status = "running" /\ jpc = "bs_unlock"
    /\ lock' = "free"
    /\ jpc' = "bs_print"
    /\ count' = [count EXCEPT !["period_at_reset"] = count["period"],
                              !["record_at_reset"] = count["record"],
                              !["monitor_at_reset"] = count["monitor"]]
    /\ UNCHANGED << status, sample_rate, jack_buffer_size, rb, jackVars, jarg, ppc,
                    pulseCtxVars, stream_q, jack_log, pulse_log, port_buf, pa_request,
                    pa_written, playbackHist >>

\* lines 449-453: the three lines of the report, return 0.
BufferSizeReturn ==
    /\ status = "running" /\ jpc = "bs_print"
    /\ jack_log' = << << "JACK buffer size is", jarg >>,
                      << "JOPA buffer size is", jarg * ringbuffer_fragments >>,
                      << "PulseAudio buffer size is", jarg >> >>
    /\ jpc' = "idle"
    /\ UNCHANGED << status, sample_rate, jack_buffer_size, rb, jackVars, jarg, lock,
                    ppc, pulseCtxVars, stream_q, pulse_log, port_buf, pa_request,
                    pa_written, playbackHist, count >>

jack_on_buffer_size ==
    \/ \E nframes \in PeriodSizes : BufferSizeEnter(nframes)
    \/ BufferSizeSet
    \/ \E s \in Streams, ok \in BOOLEAN : BufferSizeAttr(s, ok)
    \/ BufferSizeLock
    \/ \E r \in Rings, ok \in BOOLEAN : BufferSizeRing(r, ok)
    \/ BufferSizeUnlock
    \/ BufferSizeReturn

\* The ring the data callback of stream s works on.
StreamRing(s) == IF s = "playback" THEN "playback" ELSE RingOf(s)

\* The handle of ring r points to a ring: it is a null pointer once
\* jack_ringbuffer_create has failed for r (lines 433, 438, 443) and the
\* exception has left the handler at that point.
RingHandleLive(r) == ~(status \in {"aborted", "undefined"} /\ jpc = RingPos(r))

\* The exception of lines 435/440/445 has left jack_on_buffer_size, the
\* unwinding has given the mainloop lock back, and std::terminate has not
\* yet ended the process: the mainloop thread, which was waiting for the
\* lock, runs the data callback of stream s.  The callback passes the null
\* handle to jack_ringbuffer_read_space / jack_ringbuffer_write_space.
pulse_callback_while_terminating(s) ==
    /\ status = "aborted"
    /\ \E r \in Rings : jpc = RingPos(r)
    /\ lock = "free" /\ ppc = "idle"
    /\ pulse_is_stream_ready(s)
    /\ ~RingHandleLive(StreamRing(s))
    /\ ppc' = s
    /\ status' = "undefined"
    /\ UNCHANGED << sample_rate, jack_buffer_size, rb, jackVars, jpc, jarg, lock,
                    pulseCtxVars, stream_q, jack_log, pulse_log, port_buf, pa_request,
                    pa_written, playbackHist, count >>

\* Positions of the JACK thread inside jack_on_sample_rate.
RatePos(s) == "sr_rate_" \o s

AfterRate(s) ==
    CASE s = "playback" -> RatePos("record")
      [] s = "record" -> RatePos("monitor")
      [] OTHER -> "sr_print"

\* jack_on_sample_rate, line 458: JACK announces the sample rate nframes.
\* The unnamed PulseThreadedMainloopLocker takes the mainloop lock and gives
\* it back in the same statement.
SampleRateEnter(nframes) ==
    /\ JackMayDispatch
    /\ count["change"] < MaxChanges
    /\ lock = "free" /\ ppc = "idle"
    /\ jpc' = "sr_set"
    /\ jarg' = nframes
    /\ count' = Bump("change")
    /\ jack_log' = << >>
    /\ UNCHANGED << status, sample_rate, jack_buffer_size, rb, jackVars, lock, ppc,
                    pulseCtxVars, stream_q, pulse_log, port_buf, pa_request,
                    pa_written, playbackHist >>

\* line 461: self->sample_rate = nframes.
SampleRateSet ==
    /\ status = "running" /\ jpc = "sr_set"
    /\ sample_rate' = jarg
    /\ jpc' = RatePos("playback")
    /\ UNCHANGED << status, jack_buffer_size, rb, jackVars, jarg, lock, ppc,
                    pulseCtxVars, stream_q, jack_log, pulse_log, port_buf,
                    pa_request, pa_written, playbackHist, count >>

\* The rate update requested without the test of the stream's state.
SampleRateUpdateAnyState(s, ok) ==
    /\ status = "running" /\ jpc = RatePos(s)
    /\ IF ~ok
       THEN /\ Throw
            /\ UNCHANGED << jpc, stream_rate >>
       ELSE /\ jpc' = AfterRate(s)
            /\ stream_rate' = [stream_rate EXCEPT ![s] = jarg]
            /\ UNCHANGED status
    /\ UNCHANGED << sample_rate, jack_buffer_size, rb, jackVars, jarg, lock, ppc,
                    pulse_context_state, stream_state, stream_attr, sink_query,
                    stream_q, jack_log, pulse_log, port_buf, pa_request, pa_written,
                    playbackHist, count >>

\* lines 462-476, one stream: pa_stream_update_sample_rate if the stream is
\* ready; ok is whether it returns an operation.
SampleRateUpdate(s, ok) ==
    /\ status = "running" /\ jpc = RatePos(s)
    /\ IF pulse_is_stream_ready(s) /\ ~ok
       THEN /\ Throw
            /\ UNCHANGED << jpc, stream_rate >>
       ELSE /\ jpc' = AfterRate(s)
            /\ stream_rate' =
                    IF pulse_is_stream_ready(s)
                    THEN [stream_rate EXCEPT ![s] = jarg]
                    ELSE stream_rate
            /\ UNCHANGED status
    /\ UNCHANGED << sample_rate, jack_buffer_size, rb, jackVars, jarg, lock, ppc,
                    pulse_context_state, stream_state, stream_attr, sink_query,
                    stream_q, jack_log, pulse_log, port_buf, pa_request, pa_written,
                    playbackHist, count >>

\* lines 478-480: the report, return 0.
SampleRateReturn ==
    /\ status = "running" /\ jpc = "sr_print"
    /\ jack_log' = << << "Sample rate is", jarg >> >>
    /\ jpc' = "idle"
    /\ UNCHANGED << status, sample_rate, jack_buffer_size, rb, jackVars, jarg, lock,
                    ppc, pulseCtxVars, stream_q, pulse_log, port_buf, pa_request,
                    pa_written, playbackHist, count >>

jack_on_sample_rate ==
    \/ \E nframes \in SampleRates : SampleRateEnter(nframes)
    \/ SampleRateSet
    \/ \E s \in Streams, ok \in BOOLEAN : SampleRateUpdate(s, ok)
    \/ SampleRateReturn

\* pulse_on_playback_stream_moved / pulse_on_record_stream_moved: stream p was
\* moved to another device; ok is whether pa_stream_set_buffer_attr returns
\* an operation.
StreamMoved(p, ok) ==
    /\ PulseMayDispatch
    /\ stream_state[p] \in {"creating", "ready"}
    /\ count["moved"] < MaxMoves
    /\ count' = Bump("moved")
    /\ pulse_log' = << >>
    /\ IF pulse_is_stream_ready(p) /\ ~ok
       THEN /\ Throw
            /\ UNCHANGED stream_attr
       ELSE /\ stream_attr' =
                    IF pulse_is_stream_ready(p)
                    THEN [stream_attr EXCEPT
                            ![p] = pulse_calc_buffer_attr(p # "playback", jack_buffer_size)]
                    ELSE stream_attr
            /\ UNCHANGED status
    /\ UNCHANGED << sample_rate, jack_buffer_size, rb, jackVars, jpc, jarg, lock, ppc,
                    pulse_context_state, stream_state, stream_rate, sink_query,
                    stream_q, jack_log, port_buf, pa_request, pa_written,
                    playbackHist >>

pulse_on_playback_stream_moved(ok) == StreamMoved("playback", ok)

pulse_on_record_stream_moved(p, ok) == p # "playback" /\ StreamMoved(p, ok)

\* ------------------------------------------------------------------------
\* Specifications

NextStartup ==
    \/ \E st \in {"authorizing", "ready", "failed", "terminated"}, ok \in BOOLEAN :
            pulse_on_context_state(st, ok)
    \/ \E s \in Streams : StreamReady(s)
    \/ \E kind \in {"error", "info", "end"}, ok \in BOOLEAN :
            pulse_on_get_sink_info(kind, ok)

NextPlayback ==
    \/ \E nframes \in PeriodSizes : jack_on_process(nframes)
    \/ \E nbytes \in PulseSizes, nbytes_writable \in PulseSizes, ok \in BOOLEAN :
            pulse_on_playback_writable(nbytes, nbytes_writable, ok)

NextRecord ==
    \/ \E nframes \in PeriodSizes : jack_on_process(nframes)
    \/ pulse_on_record_readable
    \/ pulse_on_monitor_readable

\* Capture and monitor: read-ready callbacks against graph periods.
SpecRecord == InitRunning /\ [][NextRecord]_vars

\* Playback: graph periods against write-ready callbacks.
SpecPlayback == InitRunning /\ [][NextPlayback]_vars

NextConnect ==
    \/ \E nframes \in PeriodSizes : jack_on_process(nframes)
    \/ \E a \in EventSources, b \in EventDests, connect \in {0, 1} :
            jack_on_port_connect(a, b, connect)

\* Port mirroring: topology notifications against graph periods.
SpecConnect == InitRunning /\ [][NextConnect]_vars

\* What the server asks for and delivers when the three data paths run
\* together: one period of the larger block size at a time, as data or as a
\* hole.
DataSizes == {16}

MaxDataPeriods == 2

MaxDataWrites == 2

\* Byte counts of whole frames: what the server asks for, and the packets
\* and holes it delivers.
AlignedSizes == {frame_size}

AlignedPackets == {[hole |-> FALSE, nbytes |-> 2 * frame_size],
                   [hole |-> TRUE, nbytes |-> frame_size]}

MaxAlignedUses == 1

\* Graph periods, write-ready callbacks and packets beside a block-size
\* change when all of them run together.
MaxRoleUses == 1

DataPackets == {[hole |-> h, nbytes |-> 16] : h \in BOOLEAN}

\* The packets the read-ready callbacks receive beside a block-size change:
\* one frame of data at a time.
ResetPackets == {[hole |-> FALSE, nbytes |-> frame_size]}

\* The connection to the PulseAudio server from the start of the mainloop.
SpecStartup == Init /\ [][NextStartup]_vars

NextRoles ==
    \/ jack_on_buffer_size
    \/ /\ count["period"] < MaxRoleUses
       /\ \E nframes \in PeriodSizes : jack_on_process(nframes)
    \/ /\ count["write"] < MaxRoleUses
       /\ \E nbytes \in DataSizes : pulse_on_playback_writable(nbytes, nbytes, TRUE)
    \/ \E s \in {"record", "monitor"} :
            \/ /\ count["record"] + count["monitor"] < MaxRoleUses
               /\ \E kind \in ResetPackets : ReadableEnter(s, << kind >>)
            \/ ReadableLoop(s, TRUE)
            \/ ReadableReturn(s)

\* Everything that reads, writes or replaces a ring: graph periods, the
\* write-ready and read-ready callbacks and block-size changes.
SpecRoles == InitRunning /\ [][NextRoles]_vars

NextAligned ==
    \/ jack_on_buffer_size
    \/ /\ count["period"] < MaxAlignedUses
       /\ \E nframes \in PeriodSizes : jack_on_process(nframes)
    \/ /\ count["write"] < MaxAlignedUses
       /\ \E nbytes \in AlignedSizes :
                pulse_on_playback_writable(nbytes, nbytes, TRUE)
    \/ \E s \in {"record", "monitor"} :
            \/ /\ count["record"] + count["monitor"] < MaxAlignedUses
               /\ \E kind \in AlignedPackets : ReadableEnter(s, << kind >>)
            \/ ReadableLoop(s, TRUE)
            \/ ReadableReturn(s)

\* The data paths and block-size changes with a streaming side that asks for
\* and delivers whole frames only.
SpecAligned == InitRunning /\ [][NextAligned]_vars

NextTerminating ==
    \/ jack_on_buffer_size
    \/ \E nbytes \in ReconfSizes : pulse_on_playback_writable(nbytes, nbytes, TRUE)
    \/ pulse_on_record_readable
    \/ \E s \in Streams : pulse_callback_while_terminating(s)

\* Block-size changes whose ring allocation may fail, against the data
\* callbacks of the streaming side.
SpecTerminating == InitRunning /\ [][NextTerminating]_vars

NextData ==
    \/ /\ count["period"] < MaxDataPeriods
       /\ \E nframes \in PeriodSizes : jack_on_process(nframes)
    \/ /\ count["write"] < MaxDataWrites
       /\ \E nbytes \in DataSizes, ok \in BOOLEAN :
                pulse_on_playback_writable(nbytes, nbytes, ok)
    \/ \E s \in {"record", "monitor"} :
            \/ \E kind \in DataPackets : ReadableEnter(s, << kind >>)
            \/ \E ok \in BOOLEAN : ReadableLoop(s, ok)
            \/ ReadableReturn(s)

\* The three data paths together: graph periods, write-ready callbacks and
\* read-ready callbacks on the running bridge.
SpecData == InitRunning /\ [][NextData]_vars

NextEarlyChange ==
    \/ NextStartup
    \/ jack_on_buffer_size
    \/ jack_on_sample_rate
    \/ \E nframes \in PeriodSizes : jack_on_process(nframes)

\* Block-size and sample-rate changes and graph periods from the start of
\* the mainloop, while the streams are being created: the JACK client is
\* active since init().
SpecEarlyChange == Init /\ [][NextEarlyChange]_vars

NextNotify ==
    \/ \E a \in EventSources, b \in EventDests, connect \in {0, 1} :
            NotifyEnter(a, b, connect)
    \/ NotifyTest
    \/ NotifyPush
    \/ NotifyReturn
    \/ \E nframes \in PeriodSizes : jack_on_process(nframes)
    \/ \E nframes \in PeriodSizes : jack_on_process_racing(nframes)

\* Topology notifications on the notification thread against graph periods
\* on the real-time thread.
SpecNotify == InitRunning /\ [][NextNotify]_vars

NextReset ==
    \/ jack_on_buffer_size
    \/ \E nframes \in PeriodSizes : jack_on_process(nframes)
    \/ \E s \in {"record", "monitor"} :
            \/ \E kind \in ResetPackets : ReadableEnter(s, << kind >>)
            \/ ReadableLoop(s, TRUE)
            \/ ReadableReturn(s)

\* Block-size changes against graph periods and read-ready callbacks.
SpecReset == InitRunning /\ [][NextReset]_vars

NextReconf ==
    \/ jack_on_buffer_size
    \/ \E nbytes \in ReconfSizes : pulse_on_playback_writable(nbytes, nbytes, TRUE)
    \/ pulse_on_record_readable
    \/ \E ok \in BOOLEAN : pulse_on_playback_stream_moved(ok)
    \/ \E p \in {"record", "monitor"}, ok \in BOOLEAN :
            pulse_on_record_stream_moved(p, ok)

\* Block-size changes against the callbacks of the streaming side.
SpecReconf == InitRunning /\ [][NextReconf]_vars

NextLocking ==
    \/ jack_on_buffer_size
    \/ jack_on_sample_rate
    \/ \E nbytes \in ReconfSizes : pulse_on_playback_writable(nbytes, nbytes, TRUE)
    \/ \E ok \in BOOLEAN : pulse_on_playback_stream_moved(ok)
    \/ \E p \in {"record", "monitor"}, ok \in BOOLEAN :
            pulse_on_record_stream_moved(p, ok)

\* Block-size and sample-rate changes against the mainloop lock.
SpecLocking == InitRunning /\ [][NextLocking]_vars

\* ------------------------------------------------------------------------
\* Vocabulary of the properties

\* The bytes a ring holds, oldest first, read as from a linear buffer.
Readable(ring) ==
    [k \in 1 .. jack_ringbuffer_read_space(ring) |->
        ring.buf[(ring.read_ptr + k - 1) % ring.size]]

Zeros(n) == [k \in 1 .. n |-> 0]

\* How many diagnostics of a log start with msg.
Reports(log, msg) == Cardinality({k \in DOMAIN log : log[k][1] = msg})

\* The last n elements of a sequence.
LastOf(seq, n) == SubSeq(seq, Len(seq) - n + 1, Len(seq))

\* The step is one execution of jack_on_process / of the write-ready callback.
IsPeriod == count'["period"] = count["period"] + 1

IsWritable == count'["write"] = count["write"] + 1 /\ status' = "running"

\* ------------------------------------------------------------------------
\* Playback direction

\* C1: as long as no playback overflow and no playback underflow has
\* occurred, the bytes handed to pa_stream_write so far, followed by the bytes
\* the playback ring still holds, are exactly the interleaved frames of all
\* graph periods so far, in order.
C1_PlaybackFifo ==
    (pb_overflows = 0 /\ pb_underflows = 0) =>
        pb_recv \o Readable(rb["playback"]) = pb_sent

\* C1 witness: three periods went through without loss and the last reply
\* was read across the physical end of the ring.
C1_Witness ==
    /\ pb_overflows = 0 /\ pb_underflows = 0
    /\ count["period"] >= 3
    /\ pa_written # << >>
    /\ rb["playback"].read_ptr > 0
    /\ rb["playback"].read_ptr < Len(pa_written)

\* C2: a period of P frames whose write space is below P * frame_size leaves
\* the playback ring as it was and reports exactly one playback overflow; a
\* period with enough space appends exactly its P * frame_size interleaved
\* bytes and reports none.  Either way the callback returns.
C2_PlaybackAllOrNothing ==
    [][IsPeriod =>
        LET ring     == rb["playback"]
            required == jack_buffer_size * frame_size
        IN  /\ jpc' = "idle" /\ status' = "running"
            /\ IF jack_ringbuffer_write_space(ring) < required
               THEN /\ rb'["playback"] = ring
                    /\ Reports(jack_log', "Playback buffer overflow") = 1
               ELSE /\ Readable(rb'["playback"]) =
                            Readable(ring) \o LastOf(pb_sent', required)
                    /\ rb'["playback"].write_ptr = (ring.write_ptr + required) % ring.size
                    /\ rb'["playback"].read_ptr = ring.read_ptr
                    /\ Reports(jack_log', "Playback buffer overflow") = 0
      ]_vars

\* C2 witness: a period was refused while the ring still held the whole
\* earlier period.
C2_Witness ==
    /\ Reports(jack_log, "Playback buffer overflow") = 1
    /\ count["period"] >= 2
    /\ Readable(rb["playback"]) = SubSeq(pb_sent, 1, jack_buffer_size * frame_size)

\* C3 as stated, where pa_stream_begin_write grants all n bytes asked for:
\* with r < n readable, the callback consumes the r bytes, zero-fills the
\* n - r missing ones, reports an underflow and replies with exactly n bytes.
C3_AsStated ==
    [][(/\ IsWritable
        /\ pa_request'[2] = pa_request'[1]
        /\ jack_ringbuffer_read_space(rb["playback"]) < pa_request'[1]) =>
        /\ pa_written' = Readable(rb["playback"])
                          \o Zeros(pa_request'[1] - jack_ringbuffer_read_space(rb["playback"]))
        /\ jack_ringbuffer_read_space(rb'["playback"]) = 0
        /\ Reports(pulse_log', "Playback buffer underflow") = 1
      ]_vars

\* C3 amended: with n' <= n the size pa_stream_begin_write grants and r < n'
\* readable, the callback consumes nothing, replies with n' zero bytes and
\* reports one underflow; with r >= n' it replies with the n' oldest bytes of
\* the ring and reports none.  The reply is always n' bytes.
C3_ZeroFillWholeReply ==
    [][IsWritable =>
        LET ring    == rb["playback"]
            granted == pa_request'[2]
        IN  /\ Len(pa_written') = granted
            /\ IF jack_ringbuffer_read_space(ring) < granted
               THEN /\ pa_written' = Zeros(granted)
                    /\ rb'["playback"] = ring
                    /\ Reports(pulse_log', "Playback buffer underflow") = 1
               ELSE /\ pa_written' = SubSeq(Readable(ring), 1, granted)
                    /\ pa_written' \o Readable(rb'["playback"]) = Readable(ring)
                    /\ Reports(pulse_log', "Playback buffer underflow") = 0
      ]_vars

\* C3 witness: an underflow with bytes left in the ring.
C3_Witness ==
    /\ Reports(pulse_log, "Playback buffer underflow") = 1
    /\ pa_written = Zeros(pa_request[2])
    /\ jack_ringbuffer_read_space(rb["playback"]) > 0
    /\ jack_ringbuffer_read_space(rb["playback"]) < pa_request[2]


\* ------------------------------------------------------------------------
\* Capture and monitor directions

\* The step is one pass of the loop of the read callback of stream s.
IsPass(s) ==
    /\ ppc = s /\ ppc' = s
    /\ stream_q[s] # << >>
    /\ count' = count
    /\ status' = "running"

\* C4: a pass over a data packet of length L drops it from the stream once;
\* with write space >= L the matching ring then holds what it held followed by
\* the whole payload and nothing is reported, otherwise the ring is as it was
\* and exactly one overflow is reported.  The other rings are not touched.
C4_PacketAllOrNothing ==
    [][\A s \in {"record", "monitor"} :
        (IsPass(s) /\ ~Head(stream_q[s]).hole) =>
            LET packet == Head(stream_q[s])
                ring   == rb[RingOf(s)]
            IN  /\ stream_q'[s] = Tail(stream_q[s])
                /\ \A r \in Rings \ {RingOf(s)} : rb'[r] = rb[r]
                /\ IF jack_ringbuffer_write_space(ring) >= packet.nbytes
                   THEN /\ Readable(rb'[RingOf(s)]) = Readable(ring) \o packet.data
                        /\ pulse_log' = pulse_log
                   ELSE /\ rb'[RingOf(s)] = ring
                        /\ Len(pulse_log') = Len(pulse_log) + 1
                        /\ Reports(pulse_log', NameOf(s) \o " buffer overflow")
                             = Reports(pulse_log, NameOf(s) \o " buffer overflow") + 1
      ]_vars

\* C4 witness: a data packet was discarded for lack of space while the
\* capture ring kept the packet before it.
C4_Witness ==
       /\ ppc = "record"
       /\ Len(pulse_log) = 1
       /\ pulse_log[1][1] = "Record buffer overflow" /\ Len(pulse_log[1]) = 3
       /\ Readable(rb["capture"]) = Packet("record", 0, [hole |-> FALSE, nbytes |-> 8]).data
       /\ Readable(rb["monitor"]) = << >>
       /\ stream_q["record"] = << >>

\* The tokens of the packets of stream s, and those that start a packet.
TokensOf(s) == StreamBase(s) + 1 .. StreamBase(s) + 999

FirstTokens(s) == {b \in TokensOf(s) : (b - 1 - StreamBase(s)) % MaxPulseSize = 0}

\* The bytes a ring holds belong to its own stream and are in the order the
\* server sent them, each packet's bytes next to each other.
InOrder(s) ==
    LET held == Readable(rb[RingOf(s)])
    IN  /\ \A k \in DOMAIN held : held[k] \in TokensOf(s)
        /\ \A k \in 1 .. Len(held) - 1 :
              \/ held[k + 1] = held[k] + 1
              \/ held[k + 1] > held[k] /\ held[k + 1] \in FirstTokens(s)

\* C5: a pass over a hole reports exactly one overflow, changes no ring and
\* drops the hole from the stream once; the packets behind it stay as they
\* are, and what the rings hold is always whole runs of payload bytes in the
\* order sent.
C5_HoleSkipped ==
    /\ [][\A s \in {"record", "monitor"} :
            (IsPass(s) /\ Head(stream_q[s]).hole /\ Head(stream_q[s]).nbytes # 0) =>
                /\ rb' = rb
                /\ stream_q'[s] = Tail(stream_q[s])
                /\ pulse_log' = Append(pulse_log,
                        << NameOf(s) \o " buffer overflow", Head(stream_q[s]).nbytes >>)
         ]_vars
    /\ [](InOrder("record") /\ InOrder("monitor"))

\* C5 witness: one callback skipped a hole and then wrote the packet behind
\* it, unchanged.
C5_Witness ==
    /\ ppc = "monitor"
    /\ stream_q["monitor"] = << >>
    /\ pulse_log = << << "Monitor buffer overflow", 8 >> >>
    /\ Readable(rb["monitor"]) = Packet("monitor", 1, [hole |-> FALSE, nbytes |-> 12]).data

\* Where jack_on_process takes the bytes of port_buf[d][ch][i] from.
Deinterleaved(bytes, ch, i) ==
    SubSeq(bytes, ((i - 1) * num_channels + ch) * sizeof_sample + 1,
                  ((i - 1) * num_channels + ch) * sizeof_sample + sizeof_sample)

UnderflowOf(d) == IF d = "capture" THEN "Record buffer underflow" ELSE "Monitor buffer underflow"

\* C6: in a period of P frames, each of capture and monitor on its own:
\* with at least P * frame_size readable bytes exactly these are consumed
\* and de-interleaved into the port buffers; otherwise the ring and the port
\* buffers are untouched and exactly one underflow is reported for it.
C6_RecordAllOrNothing ==
    [][IsPeriod =>
        \A d \in {"capture", "monitor"} :
            LET ring     == rb[d]
                required == jack_buffer_size * frame_size
            IN  IF jack_ringbuffer_read_space(ring) >= required
                THEN /\ Readable(rb'[d]) =
                            SubSeq(Readable(ring), required + 1, Len(Readable(ring)))
                     /\ rb'[d].write_ptr = ring.write_ptr
                     /\ \A ch \in Channels, i \in 1 .. jack_buffer_size :
                            port_buf'[d][ch][i] = Deinterleaved(Readable(ring), ch, i)
                     /\ Reports(jack_log', UnderflowOf(d)) = 0
                ELSE /\ rb'[d] = ring
                     /\ port_buf'[d] = StalePortBuffers(jack_buffer_size)
                     /\ Reports(jack_log', UnderflowOf(d)) = 1
      ]_vars

\* C6 witness: a period of two frames took its bytes from the capture ring
\* while the monitor ring, holding less than a period, underflowed and kept
\* its bytes.
C6_Witness ==
    /\ jack_buffer_size = 2
    /\ Reports(jack_log, "Record buffer underflow") = 0
    /\ Reports(jack_log, "Monitor buffer underflow") = 1
    /\ port_buf["capture"][1][2] # StaleSample
    /\ port_buf["monitor"] = StalePortBuffers(2)
    /\ Readable(rb["monitor"]) # << >>

\* ------------------------------------------------------------------------
\* Port mirroring

\* The call that applies operation op.
Applies(call, op) ==
    /\ call.fn = (IF op.connect THEN "jack_connect" ELSE "jack_disconnect")
    /\ call.a = op.port_name_a
    /\ call.b = op.port_name_b

\* C7: the calls made so far apply, one for one and in order, the operations
\* enqueued so far; the operations not yet applied are exactly the queue, in
\* order; and every graph period applies all of them, leaving the queue empty.
C7_OpsAppliedInOrder ==
    /\ [](/\ Len(jack_calls) + Len(jack_connect_operations) = Len(enqueued)
          /\ \A k \in 1 .. Len(jack_calls) : Applies(jack_calls[k], enqueued[k])
          /\ \A k \in 1 .. Len(jack_connect_operations) :
                jack_connect_operations[k] = enqueued[Len(jack_calls) + k])
    /\ [][IsPeriod => /\ jack_connect_operations' = << >>
                      /\ Len(jack_calls') = Len(enqueued)
                      /\ enqueued' = enqueued]_vars

\* Two different operations were enqueued by two notifications and one graph
\* period applied both.
C7_Witness ==
    /\ Len(jack_calls) = 2
    /\ count["event"] = 2
    /\ jack_connect_operations = << >>
    /\ enqueued[1] # enqueued[2]
    /\ enqueued[1].connect /\ ~enqueued[2].connect

\* The step is one execution of jack_on_port_connect; the notification it
\* delivered is read back from the line the handler prints.
IsEvent == count'["event"] = count["event"] + 1

EventA == jack_log'[1][2]

EventB == jack_log'[1][3]

EventConnect == jack_log'[1][1] = "=====>"

\* The operations the step appended to the queue.
NewOps == SubSeq(jack_connect_operations', Len(jack_connect_operations) + 1,
                 Len(jack_connect_operations'))

\* The system ports the bridge mirrors.
MirroredCapture(port) ==
    port.client = "system" /\ port.short \in {"capture_1", "capture_2"}

MirroredPlayback(port) ==
    port.client = "system" /\ port.short \in {"playback_1", "playback_2"}

\* The mirrored operations an event calls for, by endpoint.
CaptureOp ==
    [port_name_a |-> Port(JopaClient, EventA.short), port_name_b |-> EventB,
     connect |-> EventConnect]

PlaybackOp ==
    [port_name_a |-> EventA, port_name_b |-> Port(JopaClient, EventB.short),
     connect |-> EventConnect]

\* C8 as stated: an event naming a mirrored system port enqueues exactly one
\* operation, any other event none.
C8_AsStated ==
    [][IsEvent =>
        /\ jack_connect_operations = SubSeq(jack_connect_operations', 1,
                                            Len(jack_connect_operations))
        /\ IF MirroredCapture(EventA) \/ MirroredPlayback(EventB)
           THEN Len(NewOps) = 1 /\ NewOps[1] \in {CaptureOp, PlaybackOp}
           ELSE NewOps = << >>]_vars

\* C8: an event enqueues one operation for each of its endpoints that is a
\* mirrored system port, the capture one first: the bridge's own port of the
\* same short name in place of that endpoint, the other endpoint as the event
\* names it, and the event's flag.  An event naming no mirrored port enqueues
\* nothing.
C8_OneOpPerMirroredEndpoint ==
    [][IsEvent =>
        /\ jack_connect_operations = SubSeq(jack_connect_operations', 1,
                                            Len(jack_connect_operations))
        /\ NewOps = (IF MirroredCapture(EventA) THEN << CaptureOp >> ELSE << >>)
                  \o (IF MirroredPlayback(EventB) THEN << PlaybackOp >> ELSE << >>)]_vars

\* A disconnection of system:capture_2 from system:playback_1 was notified and
\* left two operations in the queue.
C8_Witness ==
    /\ count["event"] = 1
    /\ jack_log = << << "==X==>", Port("system", "capture_2"), Port("system", "playback_1") >> >>
    /\ Len(jack_connect_operations) = 2
    /\ jack_connect_operations[1].port_name_a = Port(JopaClient, "capture_2")
    /\ jack_connect_operations[2].port_name_b = Port(JopaClient, "playback_1")

\* ------------------------------------------------------------------------
\* Reconfiguration

\* The steps of jack_on_buffer_size that give the lock back and that return.
IsUnlock == jpc = "bs_unlock" /\ jpc' = "bs_print"

IsReturn == jpc = "bs_print" /\ jpc' = "idle"

\* The graph period a playback byte was written in, the packet a record or
\* monitor byte came with.
PeriodOf(byte) == (byte - 1) \div (MaxPeriodSize * num_channels * sizeof_sample)

PacketOf(s, byte) == (byte - 1 - StreamBase(s)) \div MaxPulseSize

\* Every byte a ring holds was written after the rings were last replaced.
NoStaleByte ==
    /\ \A k \in DOMAIN Readable(rb["playback"]) :
            PeriodOf(Readable(rb["playback"])[k]) >= count["period_at_reset"]
    /\ \A s \in {"record", "monitor"} :
            \A k \in DOMAIN Readable(rb[RingOf(s)]) :
                PacketOf(s, Readable(rb[RingOf(s)])[k]) >= count[s \o "_at_reset"]

IsPulseCallback ==
    \/ ppc # "idle" \/ ppc' # "idle"
    \/ count'["write"] # count["write"]
    \/ count'["moved"] # count["moved"]

\* The block size and the rings disagree: some ring does not have the size
\* that belongs to jack_buffer_size.
HalfUpdated ==
    \E r \in Rings : rb[r].size # jack_buffer_size * frame_size * 2

\* C10: no callback of the streaming side takes a step from a state in which
\* the block size already has its new value and a ring still has the size of
\* the old one.
C10_NoCallbackHalfUpdated == [][IsPulseCallback => ~HalfUpdated]_vars

\* A step of a notification handler that writes the block size or the sample
\* rate, asks a stream for new buffer attributes or a new rate, or replaces a
\* ring.
IsReconfiguring ==
    /\ jpc \in {"bs_set", "sr_set"}
                \cup {AttrPos(s) : s \in Streams} \cup {RatePos(s) : s \in Streams}
                \cup {RingPos(r) : r \in Rings}
    /\ jpc' # jpc \/ status' # status

\* C11: the JACK thread holds the mainloop lock in every step that writes the
\* block size or the sample rate, issues a buffer-attribute or sample-rate
\* request, or replaces a ring.
C11_LockHeldWhileReconfiguring == [][IsReconfiguring => lock = "jack"]_vars

C13_SpaceAccounting ==
    \A r \in Rings :
        LET C == rb[r].size
        IN  /\ C = jack_buffer_size * frame_size * 2
            /\ C % frame_size = 0
            /\ jack_ringbuffer_read_space(rb[r]) = 0 =>
                    jack_ringbuffer_write_space(rb[r]) = C
            /\ jack_ringbuffer_write_space(rb[r]) = 0 =>
                    jack_ringbuffer_read_space(rb[r]) = C

\* C14: as long as no write-ready callback has run, the first and the second
\* graph period are written to the playback ring without an overflow.
C14_OnePeriodOfSlack ==
    [][(IsPeriod /\ count["write"] = 0 /\ count["period"] < 2) =>
            Reports(jack_log', "Playback buffer overflow") = 0]_vars

\* ------------------------------------------------------------------------
\* End to end

\* C15: when the first graph period of P frames has written its
\* P * frame_size bytes into the empty playback ring and the first write-ready
\* callback asks for and is granted P * frame_size bytes, the callback reports
\* no underflow, hands over exactly the interleaved bytes of the period and
\* leaves the playback ring empty.
C15_EndToEnd ==
    [][(/\ IsWritable
        /\ count["period"] = 1 /\ count["write"] = 0
        /\ pa_request' = << jack_buffer_size * frame_size,
                            jack_buffer_size * frame_size >>) =>
            /\ pulse_log' = << >>
            /\ Len(pa_written') = jack_buffer_size * num_channels * sizeof_sample
            /\ \A k \in 1 .. Len(pa_written') :
                  pa_written'[k] =
                      PortInput(0, jack_buffer_size)
                          [((k - 1) \div sizeof_sample) % num_channels]
                          [((k - 1) \div frame_size) + 1]
                          [((k - 1) % sizeof_sample) + 1]
            /\ Readable(rb'["playback"]) = << >>]_vars

\* One period of two frames, then one write-ready callback for its 16 bytes.
C15_Witness ==
    /\ jack_buffer_size = 2
    /\ count["period"] = 1 /\ count["write"] = 1
    /\ pa_request = << 16, 16 >>
    /\ Len(pa_written) = 16 /\ pa_written = pb_sent
    /\ pulse_log = << >>
    /\ jack_ringbuffer_read_space(rb["playback"]) = 0

\* ------------------------------------------------------------------------
\* Deferred connections

\* C16: a topology notification makes no jack_connect/jack_disconnect call
\* and only appends to the queue; calls are made in graph periods only; a
\* graph period empties the queue, and when it begins to copy data every
\* operation enqueued so far has been applied.
C16_DrainBeforeCopy ==
    /\ [][IsEvent =>
            /\ jack_calls' = jack_calls
            /\ SubSeq(jack_connect_operations', 1, Len(jack_connect_operations))
                    = jack_connect_operations]_vars
    /\ [][jack_calls' # jack_calls => IsPeriod]_vars
    /\ [][IsPeriod =>
            /\ jack_connect_operations' = << >>
            /\ enqueued' = enqueued
            /\ count'["calls_at_copy"] = Len(enqueued)
            /\ Len(jack_calls') = Len(enqueued)]_vars

\* A notification enqueued an operation, and the graph period after it had
\* applied it when it copied its first period of playback data.
C16_Witness ==
    /\ count["event"] = 1 /\ count["period"] = 1
    /\ Len(enqueued) >= 1
    /\ count["calls_at_copy"] = Len(enqueued)
    /\ jack_connect_operations = << >>
    /\ Readable(rb["playback"]) # << >>

\* C17: no graph period, which drains the queue, runs while the notification
\* thread is inside jack_schedule_connect.
C17_NoOverlap == [][IsPeriod => npc.pos \notin PushPositions]_vars

\* ------------------------------------------------------------------------
\* The connection to the server

\* A step that creates a stream object.
CreatesStream == \E s \in Streams : stream_state[s] = "null" /\ stream_state'[s] # "null"

\* C18: streams are created only in the step in which the context becomes
\* ready, all three at once; a failed context ends the run with an error, a
\* terminated context ends it cleanly; a context that has failed or
\* terminated changes state no more, and no stream changes after it.
C18_ConnectionStateMachine ==
    /\ [][CreatesStream =>
                (/\ pulse_context_state # "ready" /\ pulse_context_state' = "ready"
                 /\ \A s \in Streams : stream_state[s] = "null" /\ stream_state'[s] # "null")]_vars
    /\ [](pulse_context_state = "failed" => status = "aborted")
    /\ [](pulse_context_state = "terminated" => status = "exited")
    /\ [][(pulse_context_state \in {"failed", "terminated"}) =>
                (UNCHANGED << pulse_context_state, stream_state >>)]_vars

\* The context became ready, the streams were created, then the context
\* failed.
C18_Witness ==
    /\ pulse_context_state = "failed"
    /\ status = "aborted"
    /\ \A s \in Streams : stream_state[s] # "null"

\* C19: the sink query is issued only when the playback stream is connected,
\* that is ready and bound to its device.
C19_QueryAfterPlaybackConnected ==
    [][(sink_query = "none" /\ sink_query' = "pending") =>
            stream_state'["playback"] = "ready"]_vars

\* ------------------------------------------------------------------------
\* Stream migration

\* A step of the stream-moved callback of stream p.
MovedStep(p) == \E ok \in BOOLEAN : StreamMoved(p, ok)

\* The attributes of one period of the current block size: target length for
\* playback, fragment size for record and monitor, every other field left to
\* the server.
PeriodAttr(p) ==
    [maxlength |-> 0 - 1,
     tlength   |-> IF p = "playback" THEN jack_buffer_size * frame_size ELSE 0 - 1,
     prebuf    |-> 0 - 1,
     minreq    |-> 0 - 1,
     fragsize  |-> IF p = "playback" THEN 0 - 1 ELSE jack_buffer_size * frame_size]

\* C20: the stream-moved callback of a ready stream requests for that stream
\* the attributes of one period of the current block size, and leaves the
\* attributes of the other streams and the three rings as they were.
C20_MigrationResetsAttributes ==
    [][\A p \in Streams :
            (pulse_is_stream_ready(p) /\ MovedStep(p) /\ status' = "running") =>
                (/\ stream_attr'[p] = PeriodAttr(p)
                 /\ \A q \in Streams \ {p} : stream_attr'[q] = stream_attr[q]
                 /\ rb' = rb)]_vars

\* The playback stream was moved after a block-size change had stored the new
\* block size and before the handler requested the new attributes: the
\* stream has the attributes of the new block size, the rings are the old.
C20_Witness ==
    /\ status = "running"
    /\ count["moved"] = 1
    /\ jpc = AttrPos("playback")
    /\ rb["playback"].size # RingBytes(jack_buffer_size)
    /\ stream_attr["playback"] = PeriodAttr("playback")
    /\ stream_attr["record"] # PeriodAttr("record")

\* ------------------------------------------------------------------------
\* Sample-rate change

\* The step of jack_on_sample_rate that deals with stream s.
RateStep(s) == \E ok \in BOOLEAN : SampleRateUpdate(s, ok)

\* C21: every step of the sample-rate handler leaves the three rings as they
\* are; the handler records the new rate; the step that deals with a stream
\* requests the new rate for it if and only if the stream is ready, and for
\* no other stream.
C21_RateChangeFrame ==
    [][/\ jack_on_sample_rate => rb' = rb
       /\ SampleRateSet => sample_rate' = jarg
       /\ \A s \in Streams :
            (RateStep(s) /\ status' = "running") =>
                (/\ sample_rate = jarg
                 /\ stream_rate' =
                        IF stream_state[s] = "ready"
                        THEN [stream_rate EXCEPT ![s] = sample_rate]
                        ELSE stream_rate)]_vars

\* A sample-rate change has returned: the playback stream, ready at its
\* test, has the new rate, the monitor stream, not ready, keeps the old one,
\* and the playback ring still holds the period written before.
C21_Witness ==
    /\ status = "running" /\ jpc = "idle"
    /\ count["change"] = 1
    /\ sample_rate # InitialSampleRate
    /\ Reports(jack_log, "Sample rate is") = 1
    /\ stream_rate["playback"] = sample_rate
    /\ stream_state["monitor"] \in {"unconnected", "creating"}
    /\ stream_rate["monitor"] = InitialSampleRate
    /\ jack_ringbuffer_read_space(rb["playback"]) = jack_buffer_size * frame_size

\* ------------------------------------------------------------------------
\* Changes that arrive before a stream is ready

\* C25: when no change handler is running, every ready stream has, as the
\* attributes and the rate last requested for it, those of the current block
\* size and sample rate, also if a change was announced while the stream was
\* still being connected.
C25_NoChangeLost ==
    (status = "running" /\ jpc = "idle") =>
        \A s \in Streams :
            stream_state[s] = "ready" =>
                /\ stream_attr[s] = PeriodAttr(s)
                /\ stream_rate[s] = sample_rate

\* ------------------------------------------------------------------------
\* Overflow and underflow

\* A step that adds a report of an overflow or an underflow.
ReportsFlow ==
    \/ IsPeriod /\ jack_log' # << >>
    \/ IsWritable /\ pulse_log' # << >>
    \/ \E s \in {"record", "monitor"} : IsPass(s) /\ Len(pulse_log') > Len(pulse_log)

\* C22: a graph period completes in its one step and leaves the bridge
\* running, whatever the rings hold; a write-ready callback and a pass of a
\* read-ready callback whose PulseAudio calls succeed leave it running, the
\* first returns and the second goes on with its loop; a step that reports an
\* overflow or an underflow does not end the run.
C22_FlowNeverFatal ==
    [][/\ ((\E nframes \in PeriodSizes : jack_on_process(nframes)) =>
            (status' = "running" /\ jpc' = "idle"))
       /\ ((\E nbytes \in DataSizes : pulse_on_playback_writable(nbytes, nbytes, TRUE)) =>
            (status' = "running" /\ ppc' = "idle"))
       /\ ((\E s \in {"record", "monitor"} : ReadableLoop(s, TRUE)) =>
            (status' = "running" /\ ppc' = ppc))
       /\ (ReportsFlow => status' = "running")]_vars

\* All three directions have failed at once and the bridge runs on: the last
\* graph period reported the playback overflow and both underflows, the
\* last read-ready pass an overflow.
C22_Witness ==
    /\ status = "running"
    /\ Reports(jack_log, "Playback buffer overflow") = 1
    /\ Reports(jack_log, "Record buffer underflow") = 1
    /\ Reports(jack_log, "Monitor buffer underflow") = 1
    /\ \E k \in DOMAIN pulse_log : pulse_log[k][1] \in {"Record buffer overflow",
                                                        "Monitor buffer overflow"}
    /\ pb_underflows > 0

\* ------------------------------------------------------------------------
\* Who touches a ring

\* The step of the block-size handler that frees and re-creates ring r.
ReplacesRing(r) == \E ok \in BOOLEAN : BufferSizeRing(r, ok)

\* A step other than a replacement that moves the write (read) pointer of
\* ring r.
WritesRing(r) == ~ReplacesRing(r) /\ rb'[r].write_ptr # rb[r].write_ptr

ReadsRing(r) == ~ReplacesRing(r) /\ rb'[r].read_ptr # rb[r].read_ptr

\* A graph period: the JACK thread, no block-size handler in progress.
ByPeriod == IsPeriod /\ jpc = "idle" /\ jpc' = "idle"

\* The write-ready callback: the mainloop thread, the lock not held by the
\* JACK thread.
ByWritable == IsWritable /\ ppc = "idle" /\ lock = "free"

\* A pass of the read-ready callback of stream s.
ByReadable(s) == IsPass(s) /\ lock = "free"

\* C23: the playback ring is written only by graph periods and read only by
\* the write-ready callback; the capture and the monitor ring are written
\* only by the read-ready callback of their stream and read only by graph
\* periods; a ring is replaced only with the mainloop lock held, and while
\* the lock is held no callback of the mainloop thread is in progress and no
\* graph period runs.
C23_OneWriterOneReader ==
    /\ [][/\ (WritesRing("playback") => ByPeriod)
           /\ (ReadsRing("playback") => ByWritable)
           /\ (WritesRing("capture") => ByReadable("record"))
           /\ (WritesRing("monitor") => ByReadable("monitor"))
           /\ (ReadsRing("capture") => ByPeriod)
           /\ (ReadsRing("monitor") => ByPeriod)
           /\ \A r \in Rings : ReplacesRing(r) => lock = "jack"]_vars
    /\ [](lock = "jack" => (ppc = "idle" /\ jpc # "idle"))

\* The capture ring is replaced while it holds a frame its read-ready
\* callback wrote, after a graph period and a write-ready callback have used
\* the playback ring.
C23_Witness ==
    /\ lock = "jack"
    /\ jpc = RingPos("capture")
    /\ jack_ringbuffer_read_space(rb["capture"]) > 0
    /\ count["period"] > 0
    /\ count["write"] > 0

\* ------------------------------------------------------------------------
\* Progress of the playback direction

\* The request sizes of the write-ready callback that are whole frames and
\* at most the size the playback ring was created with.
StallSizes ==
    {n \in PulseSizes : n % frame_size = 0 /\ n <= RingBytes(jack_buffer_size)}

\* The playback ring refuses the next graph period and cannot serve a
\* request of n bytes.
Stalled(n) ==
    /\ jack_ringbuffer_write_space(rb["playback"]) < jack_buffer_size * frame_size
    /\ jack_ringbuffer_read_space(rb["playback"]) < n

\* C24: the playback direction is in no reachable state stalled for a
\* request size of whole frames up to the nominal size of the ring.
C24_NeverStalled ==
    status = "running" => \A n \in StallSizes : ~Stalled(n)

\* C24, the stall is permanent: from a state stalled for n, a graph period
\* and a write-ready callback granted n bytes leave the playback ring as it
\* is, so the state after them is stalled for n again.
C24_StallPersists ==
    [][\A n \in StallSizes :
        (Stalled(n) /\ (IsPeriod \/ (IsWritable /\ pa_request'[2] = n))) =>
            (rb'["playback"] = rb["playback"] /\ jack_buffer_size' = jack_buffer_size)]_vars

\* ------------------------------------------------------------------------
\* Mirroring and its own events

\* The event reports a connection or disconnection the bridge made itself:
\* jack_finish_connect has made this call, and one endpoint is a port of the
\* bridge.
EventOfMirroredOp ==
    /\ EventA.client = JopaClient \/ EventB.client = JopaClient
    /\ \E k \in DOMAIN jack_calls :
            jack_calls[k] = ConnectCall([port_name_a |-> EventA, port_name_b |-> EventB,
                                         connect |-> EventConnect])

\* C26: the event JACK raises for a mirrored operation the bridge has
\* applied enqueues no operation.
C26_NoFeedback ==
    [][(IsEvent /\ EventOfMirroredOp) => NewOps = << >>]_vars

\* ------------------------------------------------------------------------
\* Frame alignment

\* C27: with requests and packets of whole frames, every ring holds a whole
\* number of frames in every state, and begins them at a frame boundary of
\* its buffer.
C27_FrameAligned ==
    \A r \in Rings :
        /\ jack_ringbuffer_read_space(rb[r]) % frame_size = 0
        /\ rb[r].read_ptr % frame_size = 0

\* After a playback underflow and a block-size change that threw stored
\* bytes away, the capture ring holds a packet of two frames.
C27_Witness ==
    /\ status = "running" /\ jpc = "idle" /\ ppc = "idle"
    /\ count["change"] = 1
    /\ count["dropped"] > 0
    /\ pb_underflows > 0
    /\ jack_ringbuffer_read_space(rb["capture"]) = 2 * frame_size

\* ------------------------------------------------------------------------
\* Ring handles

\* A step in which a callback that uses the rings starts: a graph period, a
\* step of the block-size handler, or a data callback of the mainloop
\* thread.
UsesRings ==
    \/ IsPeriod
    \/ jpc' # jpc
    \/ count'["write"] = count["write"] + 1
    \/ ppc = "idle" /\ ppc' # "idle"

\* C28: whenever a callback that uses the rings starts, the three handles
\* point to rings.
C28_HandlesLive ==
    [][UsesRings => \A r \in Rings : RingHandleLive(r)]_vars

====
